---- MODULE Spec2Model ----
(***************************************************************************)
(* Markdown <-> structured-document conversion and the reconciliation      *)
(* controller of the WYSIWYG editor (WysiwygEditor component), plus the    *)
(* parent page that feeds onChange back as the content prop.               *)
(*                                                                         *)
(* Text is a sequence of one-character strings; "\n" separates lines.      *)
(* HTML produced by markdownToHTML is a sequence of tokens: a token is a   *)
(* record [t, v, w] where t = "c" marks one literal character (v = <<c>>)  *)
(* and any other t is a tag with its attributes in v and w.                *)
(***************************************************************************)
EXTENDS Integers, Sequences, FiniteSets, TLC

NL == "\n"
\* the backquote character (written as a name: the character itself cannot occur in a string here)
BQ == "bq"
WS == {" ", "\t"}
Digits == {"0", "1", "2", "3", "4", "5", "6", "7", "8", "9"}

Ch(c) == [t |-> "c", v |-> <<c>>, w |-> <<>>]
Tag(n) == [t |-> n, v |-> <<>>, w |-> <<>>]
TagA(n, a, b) == [t |-> n, v |-> a, w |-> b]
IsCh(tok, c) == tok.t = "c" /\ tok.v = <<c>>
Toks(line) == [i \in 1..Len(line) |-> Ch(line[i])]

Min(S) == CHOOSE x \in S : \A y \in S : x <= y
Max(S) == CHOOSE x \in S : \A y \in S : x >= y
Tail2(s, i) == SubSeq(s, i, Len(s))

\* the text a token contributes when it ends up inside an attribute value
RECURSIVE Flat(_)
Flat(s) ==
  IF s = <<>> THEN <<>>
  ELSE (IF Head(s).t = "c" THEN Head(s).v ELSE <<Head(s).t>>) \o Flat(Tail(s))

\* String.prototype.split(c) for a one-character separator c
RECURSIVE Split(_, _)
Split(s, c) ==
  LET S == {i \in 1..Len(s) : s[i] = c} IN
  IF S = {} THEN <<s>>
  ELSE <<SubSeq(s, 1, Min(S) - 1)>> \o Split(Tail2(s, Min(S) + 1), c)

\* Array.prototype.join(c) of a sequence of texts (c is a text, possibly empty)
RECURSIVE Join(_, _)
Join(ss, c) ==
  IF ss = <<>> THEN <<>>
  ELSE IF Len(ss) = 1 THEN ss[1]
  ELSE ss[1] \o c \o Join(Tail(ss), c)

\* first index >= i that is past the end or holds a non-whitespace character
SkipWs(line, i) ==
  Min({j \in i..(Len(line) + 1) : j = Len(line) + 1 \/ line[j] \notin WS})

\* String.prototype.trim()
Trim(line) ==
  LET a == SkipWs(line, 1)
      b == Max({0} \cup {j \in 1..Len(line) : line[j] \notin WS})
  IN IF a > b THEN <<>> ELSE SubSeq(line, a, b)

StartsWith(line, pre) ==
  Len(line) >= Len(pre) /\ SubSeq(line, 1, Len(pre)) = pre

EndsWith(line, suf) ==
  Len(line) >= Len(suf) /\ SubSeq(line, Len(line) - Len(suf) + 1, Len(line)) = suf

(***************************************************************************)
(* parseInlineMarkdown: seven global regex replacements applied in order.  *)
(***************************************************************************)
MatchAt(s, d, p) ==
  p + Len(d) - 1 <= Len(s) /\ \A k \in 1..Len(d) : IsCh(s[p + k - 1], d[k])

Find(s, d, from) ==
  LET S == {p \in from..Len(s) : MatchAt(s, d, p)} IN
  IF S = {} THEN 0 ELSE Min(S)

\* global replace of: delimiter D, a shortest non-empty run, delimiter D
RECURSIVE ReplDelim(_, _, _, _)
ReplDelim(s, d, o, c) ==
  LET p == Find(s, d, 1) IN
  IF p = 0 THEN s
  ELSE LET q == Find(s, d, p + Len(d) + 1) IN
       IF q = 0 THEN s
       ELSE SubSeq(s, 1, p - 1) \o o \o SubSeq(s, p + Len(d), q - 1) \o c
            \o ReplDelim(Tail2(s, q + Len(d)), d, o, c)

\* global replace of a backtick-delimited non-empty run without backticks
RECURSIVE ReplCode(_)
ReplCode(s) ==
  LET p == Find(s, <<BQ>>, 1) IN
  IF p = 0 THEN s
  ELSE LET q == Find(s, <<BQ>>, p + 1) IN
       IF q = 0 THEN s
       ELSE IF q = p + 1 THEN SubSeq(s, 1, p) \o ReplCode(Tail2(s, p + 1))
       ELSE SubSeq(s, 1, p - 1) \o <<Tag("<code>")>> \o SubSeq(s, p + 1, q - 1)
            \o <<Tag("</code>")>> \o ReplCode(Tail2(s, q + 1))

\* the bracket-then-parenthesis part shared by the image and the link pattern,
\* tried with the opening bracket at index p; minLabel is the least label length.
\* Yields <<r, t>>, the indexes of the closing bracket and parenthesis, or <<0, 0>>.
BracketParen(s, p, minLabel) ==
  LET r == Find(s, <<"]">>, p + 1) IN
  IF r = 0 \/ r - p - 1 < minLabel \/ ~MatchAt(s, <<"(">>, r + 1) THEN <<0, 0>>
  ELSE LET t == Find(s, <<")">>, r + 2) IN
       IF t = 0 \/ t = r + 2 THEN <<0, 0>> ELSE <<r, t>>

\* the image pattern: an exclamation mark, a bracketed alt text (may be empty),
\* a parenthesised non-empty source; replaced by an img tag
RECURSIVE ReplImage(_)
ReplImage(s) ==
  LET p == Find(s, <<"!", "[">>, 1) IN
  IF p = 0 THEN s
  ELSE LET m == BracketParen(s, p + 1, 0) IN
       IF m[1] = 0 THEN SubSeq(s, 1, p) \o ReplImage(Tail2(s, p + 1))
       ELSE SubSeq(s, 1, p - 1)
            \o <<TagA("<img>", Flat(SubSeq(s, m[1] + 2, m[2] - 1)),
                      Flat(SubSeq(s, p + 2, m[1] - 1)))>>
            \o ReplImage(Tail2(s, m[2] + 1))

\* the link pattern: a bracketed non-empty label and a parenthesised non-empty
\* target; replaced by an anchor around the label
RECURSIVE ReplLink(_)
ReplLink(s) ==
  LET p == Find(s, <<"[">>, 1) IN
  IF p = 0 THEN s
  ELSE LET m == BracketParen(s, p, 1) IN
       IF m[1] = 0 THEN SubSeq(s, 1, p) \o ReplLink(Tail2(s, p + 1))
       ELSE SubSeq(s, 1, p - 1)
            \o <<TagA("<a>", Flat(SubSeq(s, m[1] + 2, m[2] - 1)), <<>>)>>
            \o SubSeq(s, p + 1, m[1] - 1) \o <<Tag("</a>")>>
            \o ReplLink(Tail2(s, m[2] + 1))

parseInlineMarkdown(text) ==
  LET s0 == Toks(text)
      s1 == ReplDelim(s0, <<"*", "*", "*">>, <<Tag("<strong>"), Tag("<em>")>>,
                      <<Tag("</em>"), Tag("</strong>")>>)
      s2 == ReplDelim(s1, <<"*", "*">>, <<Tag("<strong>")>>, <<Tag("</strong>")>>)
      s3 == ReplDelim(s2, <<"*">>, <<Tag("<em>")>>, <<Tag("</em>")>>)
      s4 == ReplDelim(s3, <<"~", "~">>, <<Tag("<del>")>>, <<Tag("</del>")>>)
      s5 == ReplCode(s4)
      s6 == ReplImage(s5)
  IN ReplLink(s6)

(***************************************************************************)
(* markdownToHTML: the line-oriented scanner.  The per-line patterns are   *)
(* given as operators that yield a record with the field ok and the        *)
(* captured groups.                                                        *)
(***************************************************************************)
NoMatch == [ok |-> FALSE, n |-> 0, text |-> <<>>]

\* line.trim().startsWith of three backquotes
IsFence(line) == StartsWith(Trim(line), <<BQ, BQ, BQ>>)
FenceLang(line) == Trim(Tail2(Trim(line), 4))

\* line.trim() starts with and ends with a vertical bar
IsTableLine(line) == StartsWith(Trim(line), <<"|">>) /\ EndsWith(Trim(line), <<"|">>)

\* the separator-row pattern: a bar, one or more of whitespace, dash or colon,
\* a bar, and nothing else on the line
IsSeparatorRow(line) ==
  /\ Len(line) >= 3
  /\ line[1] = "|"
  /\ line[Len(line)] = "|"
  /\ \A i \in 2..(Len(line) - 1) : line[i] \in WS \cup {"-", ":"}

\* the cells of a table line: split on the bar, drop the first and last piece
TableCells(line) ==
  LET parts == Split(line, "|") IN
  [i \in 1..(Len(parts) - 2) |-> Trim(parts[i + 1])]

\* the task pattern that takes every mark for a blank
TaskMatch_Unchecked(line) ==
  LET k == SkipWs(line, 1)
      j == SkipWs(line, k + 1)
  IN IF /\ k <= Len(line) /\ line[k] = "-"
        /\ j + 3 <= Len(line)
        /\ line[j] = "["
        /\ line[j + 1] \in {" ", "x"}
        /\ line[j + 2] = "]"
        /\ line[j + 3] \in WS
     THEN [ok |-> TRUE, n |-> 0, text |-> Tail2(line, SkipWs(line, j + 3))]
     ELSE NoMatch

\* the task pattern: optional indent, a dash, optional whitespace, a bracketed
\* blank or lower-case x, whitespace, the text; n is 1 for x and 0 for blank
TaskMatch(line) ==
  LET k == SkipWs(line, 1)
      j == SkipWs(line, k + 1)
  IN IF /\ k <= Len(line) /\ line[k] = "-"
        /\ j + 3 <= Len(line)
        /\ line[j] = "["
        /\ line[j + 1] \in {" ", "x"}
        /\ line[j + 2] = "]"
        /\ line[j + 3] \in WS
     THEN [ok |-> TRUE, n |-> IF line[j + 1] = "x" THEN 1 ELSE 0,
           text |-> Tail2(line, SkipWs(line, j + 3))]
     ELSE NoMatch

\* the bullet pattern: optional indent, a dash or star, whitespace, the text
ListMatch(line) ==
  LET k == SkipWs(line, 1) IN
  IF k + 1 <= Len(line) /\ line[k] \in {"-", "*"} /\ line[k + 1] \in WS
  THEN [ok |-> TRUE, n |-> 0, text |-> Tail2(line, SkipWs(line, k + 1))]
  ELSE NoMatch

\* the ordered pattern: optional indent, digits, a dot, whitespace, the text
OrderedMatch(line) ==
  LET k == SkipWs(line, 1)
      d == Min({j \in k..(Len(line) + 1) : j = Len(line) + 1 \/ line[j] \notin Digits})
  IN IF d > k /\ d + 1 <= Len(line) /\ line[d] = "." /\ line[d + 1] \in WS
     THEN [ok |-> TRUE, n |-> 0, text |-> Tail2(line, SkipWs(line, d + 1))]
     ELSE NoMatch

\* the heading pattern: one to six hashes at the line start, whitespace, the
\* text; n is the number of hashes
HeadingMatch(line) ==
  LET h == Min({j \in 1..(Len(line) + 1) : j = Len(line) + 1 \/ line[j] # "#"}) - 1 IN
  IF h >= 1 /\ h <= 6 /\ h + 1 <= Len(line) /\ line[h + 1] \in WS
  THEN [ok |-> TRUE, n |-> h, text |-> Tail2(line, SkipWs(line, h + 1))]
  ELSE NoMatch

IsBlockquote(line) == StartsWith(Trim(line), <<">">>)
BlockquoteText(line) == Trim(Tail2(Trim(line), 2))

\* the rule pattern: three or more dashes, underscores or stars and nothing else
IsRule(line) ==
  Len(line) >= 3 /\ \E c \in {"-", "_", "*"} : \A i \in 1..Len(line) : line[i] = c

HeadingOpen(n) ==
  CASE n = 1 -> "<h1>" [] n = 2 -> "<h2>" [] n = 3 -> "<h3>"
    [] n = 4 -> "<h4>" [] n = 5 -> "<h5>" [] OTHER -> "<h6>"

ParserInit ==
  [result |-> <<>>, inCodeBlock |-> FALSE, codeBlockLang |-> <<>>,
   codeBlockContent |-> <<>>, inList |-> FALSE, inTaskList |-> FALSE,
   inTable |-> FALSE, tableRows |-> <<>>, tableHeader |-> FALSE]

Push(st, toks) == [st EXCEPT !.result = @ \o toks]

\* result.push of the table tag, the joined rows and the closing tag
EmitTable(st) ==
  IF Len(st.tableRows) > 0
  THEN Push(st, <<Tag("<table>")>> \o Join(st.tableRows, <<>>) \o <<Tag("</table>")>>)
  ELSE st

TableRowToks(line) ==
  LET cells == TableCells(line)
      cellToks == [i \in 1..Len(cells) |->
                     <<Tag("<td>")>> \o parseInlineMarkdown(cells[i]) \o <<Tag("</td>")>>]
  IN <<Tag("<tr>")>> \o Join(cellToks, <<>>) \o <<Tag("</tr>")>>

\* the body of the for loop for one line
ParseLine(st, line) ==
  IF IsFence(line) THEN
    IF ~st.inCodeBlock
    THEN [st EXCEPT !.codeBlockLang = FenceLang(line), !.inCodeBlock = TRUE,
                    !.codeBlockContent = <<>>]
    ELSE [Push(st, <<TagA("<pre>", st.codeBlockLang, Join(st.codeBlockContent, <<NL>>))>>)
            EXCEPT !.inCodeBlock = FALSE, !.codeBlockLang = <<>>,
                   !.codeBlockContent = <<>>]
  ELSE IF st.inCodeBlock THEN
    [st EXCEPT !.codeBlockContent = Append(@, line)]
  ELSE IF IsTableLine(line) THEN
    LET t0 == IF ~st.inTable
              THEN [st EXCEPT !.inTable = TRUE, !.tableRows = <<>>, !.tableHeader = FALSE]
              ELSE st
    IN IF IsSeparatorRow(line)
       THEN [t0 EXCEPT !.tableHeader = TRUE]
       ELSE [t0 EXCEPT !.tableRows = Append(@, TableRowToks(line))]
  ELSE
    LET s1 == IF st.inTable
              THEN [EmitTable(st) EXCEPT !.inTable = FALSE, !.tableRows = <<>>]
              ELSE st
        tm == TaskMatch(line)
    IN
    IF tm.ok THEN
      LET a == IF ~s1.inTaskList
               THEN [Push(s1, (IF s1.inList THEN <<Tag("</ul>")>> ELSE <<>>)
                              \o <<Tag("<ul.task>")>>)
                       EXCEPT !.inTaskList = TRUE]
               ELSE s1
      IN Push(a, <<TagA("<li.task>", <<IF tm.n = 1 THEN "true" ELSE "false">>, <<>>)>>
                 \o parseInlineMarkdown(tm.text) \o <<Tag("</li>")>>)
    ELSE
    LET s2 == IF s1.inTaskList
              THEN [Push(s1, <<Tag("</ul>")>>) EXCEPT !.inTaskList = FALSE]
              ELSE s1
        lm == ListMatch(line)
    IN
    IF lm.ok THEN
      LET a == IF ~s2.inList
               THEN [Push(s2, <<Tag("<ul>")>>) EXCEPT !.inList = TRUE]
               ELSE s2
      IN Push(a, <<Tag("<li>")>> \o parseInlineMarkdown(lm.text) \o <<Tag("</li>")>>)
    ELSE
    LET s3 == IF s2.inList
              THEN [Push(s2, <<Tag("</ul>")>>) EXCEPT !.inList = FALSE]
              ELSE s2
        om == OrderedMatch(line)
        hm == HeadingMatch(line)
    IN
    IF om.ok THEN
      LET a == IF ~s3.inList
               THEN [Push(s3, <<Tag("<ol>")>>) EXCEPT !.inList = TRUE]
               ELSE s3
      IN Push(a, <<Tag("<li>")>> \o parseInlineMarkdown(om.text) \o <<Tag("</li>")>>)
    ELSE IF hm.ok THEN
      Push(s3, <<Tag(HeadingOpen(hm.n))>> \o parseInlineMarkdown(hm.text) \o <<Tag("</h>")>>)
    ELSE IF IsBlockquote(line) THEN
      Push(s3, <<Tag("<blockquote>")>> \o parseInlineMarkdown(BlockquoteText(line))
               \o <<Tag("</blockquote>")>>)
    ELSE IF IsRule(line) THEN
      Push(s3, <<Tag("<hr>")>>)
    ELSE IF Trim(line) = <<>> THEN
      s3
    ELSE
      Push(s3, <<Tag("<p>")>> \o parseInlineMarkdown(line) \o <<Tag("</p>")>>)

RECURSIVE ParseLines(_, _)
ParseLines(st, lines) ==
  IF lines = <<>> THEN st ELSE ParseLines(ParseLine(st, Head(lines)), Tail(lines))

\* the statements after the loop ("Close any open tags")
CloseOpenTags(st) ==
  LET a == IF st.inTable THEN EmitTable(st) ELSE st
      b == IF a.inTaskList THEN Push(a, <<Tag("</ul>")>>) ELSE a
  IN IF b.inList THEN Push(b, <<Tag("</ul>")>>) ELSE b

\* the token stream of the HTML text that markdownToHTML returns
markdownToHTML(markdown) ==
  CloseOpenTags(ParseLines(ParserInit, Split(markdown, NL))).result

(***************************************************************************)
(* The document tree.  Every node is a record with the same fields:        *)
(*   type, level (heading), lang (code_block), checked (task_item),        *)
(*   inl (inline content of a textblock), kids (child blocks).             *)
(* Inline content is a sequence of items [k, text, marks, src]: k = "text" *)
(* is a text run, k = "image" an image with alt text in text.  A mark is a *)
(* record [m, href]; href is empty except for a link.                      *)
(***************************************************************************)
N(type, level, lang, checked, inl, kids) ==
  [type |-> type, level |-> level, lang |-> lang, checked |-> checked,
   inl |-> inl, kids |-> kids]

Para(inl) == N("paragraph", 0, <<>>, FALSE, inl, <<>>)
Heading(n, inl) == N("heading", n, <<>>, FALSE, inl, <<>>)
Blockquote(kids) == N("blockquote", 0, <<>>, FALSE, <<>>, kids)
Rule == N("horizontal_rule", 0, <<>>, FALSE, <<>>, <<>>)
ListItem(kids) == N("list_item", 0, <<>>, FALSE, <<>>, kids)
TaskItem(c, kids) == N("task_item", 0, <<>>, c, <<>>, kids)
OrderedList(kids) == N("ordered_list", 0, <<>>, FALSE, <<>>, kids)
BulletList(kids) == N("bullet_list", 0, <<>>, FALSE, <<>>, kids)
TaskList(kids) == N("task_list", 0, <<>>, FALSE, <<>>, kids)
Table(kids) == N("table", 0, <<>>, FALSE, <<>>, kids)
TableRow(kids) == N("table_row", 0, <<>>, FALSE, <<>>, kids)
TableCell(kids) == N("table_cell", 0, <<>>, FALSE, <<>>, kids)

Mk(m) == [m |-> m, href |-> <<>>]
Link(href) == [m |-> "link", href |-> href]
Txt(text, marks) == [k |-> "text", text |-> text, marks |-> marks, src |-> <<>>]
Image(src, alt, marks) == [k |-> "image", text |-> alt, marks |-> marks, src |-> src]

CodeBlock(lang, text) ==
  N("code_block", 0, lang, FALSE, IF text = <<>> THEN <<>> ELSE <<Txt(text, {})>>, <<>>)

(***************************************************************************)
(* From the HTML token stream to the document: what                        *)
(* ProseMirrorDOMParser.fromSchema(schema).parse(new DOMParser()           *)
(* .parseFromString(html).body) yields under the parseDOM rules of schema. *)
(***************************************************************************)
Letters == {"a", "b", "c", "d", "e", "f", "g", "h", "i", "j", "k", "l", "m",
            "n", "o", "p", "q", "r", "s", "t", "u", "v", "w", "x", "y", "z",
            "A", "B", "C", "D", "E", "F", "G", "H", "I", "J", "K", "L", "M",
            "N", "O", "P", "Q", "R", "S", "T", "U", "V", "W", "X", "Y", "Z"}
WordChars == Letters \cup Digits \cup {"_"}

\* code_block getAttrs: the word characters that follow "language-" in the
\* class of the code element; none gives a null language
CodeLanguage(lang) ==
  LET e == Min({j \in 1..(Len(lang) + 1) : j = Len(lang) + 1 \/ lang[j] \notin WordChars})
  IN SubSeq(lang, 1, e - 1)

\* one character of text under the given marks, with the whitespace handling
\* of a textblock: runs of whitespace collapse, leading whitespace is dropped
AddChar(out, c, marks) ==
  LET n == Len(out)
      ch == IF c \in WS THEN " " ELSE c
      afterWs == n = 0 \/ (out[n].k = "text" /\ out[n].text[Len(out[n].text)] = " ")
  IN IF c \in WS /\ afterWs THEN out
     ELSE IF n > 0 /\ out[n].k = "text" /\ out[n].marks = marks
     THEN [out EXCEPT ![n].text = Append(@, ch)]
     ELSE Append(out, Txt(<<ch>>, marks))

RECURSIVE InlineFold(_, _, _)
InlineFold(toks, marks, out) ==
  IF toks = <<>> THEN out
  ELSE LET tok == Head(toks)
           rest == Tail(toks)
       IN CASE tok.t = "c" -> InlineFold(rest, marks, AddChar(out, tok.v[1], marks))
            [] tok.t = "<strong>" -> InlineFold(rest, marks \cup {Mk("strong")}, out)
            [] tok.t = "</strong>" -> InlineFold(rest, marks \ {Mk("strong")}, out)
            [] tok.t = "<em>" -> InlineFold(rest, marks \cup {Mk("em")}, out)
            [] tok.t = "</em>" -> InlineFold(rest, marks \ {Mk("em")}, out)
            [] tok.t = "<code>" -> InlineFold(rest, marks \cup {Mk("code")}, out)
            [] tok.t = "</code>" -> InlineFold(rest, marks \ {Mk("code")}, out)
            [] tok.t = "<a>" ->
                 InlineFold(rest, {m \in marks : m.m # "link"} \cup {Link(tok.v)}, out)
            [] tok.t = "</a>" -> InlineFold(rest, {m \in marks : m.m # "link"}, out)
            [] tok.t = "<img>" ->
                 InlineFold(rest, marks, Append(out, Image(tok.v, tok.w, marks)))
            [] OTHER -> InlineFold(rest, marks, out)

\* trailing whitespace of the last text run of a textblock is stripped
StripTrailing(out) ==
  LET n == Len(out) IN
  IF n > 0 /\ out[n].k = "text" /\ out[n].text[Len(out[n].text)] = " "
  THEN IF Len(out[n].text) = 1 THEN SubSeq(out, 1, n - 1)
       ELSE [out EXCEPT ![n].text = SubSeq(@, 1, Len(@) - 1)]
  ELSE out

InlineContent(toks) == StripTrailing(InlineFold(toks, {}, <<>>))

\* index of the first token with tag t, 0 if none
FindTag(toks, t) ==
  LET S == {i \in 1..Len(toks) : toks[i].t = t} IN IF S = {} THEN 0 ELSE Min(S)

\* the cells of one row: the tokens between the tr tags
RECURSIVE CellsOf(_)
CellsOf(toks) ==
  LET a == FindTag(toks, "<td>")
      b == FindTag(toks, "</td>")
  IN IF a = 0 \/ b = 0 THEN <<>>
     ELSE <<TableCell(<<Para(InlineContent(SubSeq(toks, a + 1, b - 1)))>>)>>
          \o CellsOf(Tail2(toks, b + 1))

RECURSIVE RowsOf(_)
RowsOf(toks) ==
  LET a == FindTag(toks, "<tr>")
      b == FindTag(toks, "</tr>")
  IN IF a = 0 \/ b = 0 THEN <<>>
     ELSE <<TableRow(CellsOf(SubSeq(toks, a + 1, b - 1)))>> \o RowsOf(Tail2(toks, b + 1))

\* elements of the HTML tree: a built block, a list item or a list
DomBlock(node) == [d |-> "block", kind |-> "", node |-> node, kids |-> <<>>]
DomItem(kind, checked, inl) ==
  [d |-> "li", kind |-> kind, node |-> TaskItem(checked, <<Para(inl)>>), kids |-> <<>>]
DomList(kind, kids) == [d |-> "list", kind |-> kind, node |-> Rule, kids |-> kids]

\* the innermost open list is closed and becomes a child of its parent
CloseTop(stack) ==
  LET n == Len(stack) IN
  SubSeq(stack, 1, n - 2)
    \o <<[stack[n - 1] EXCEPT !.kids = Append(@, DomList(stack[n].kind, stack[n].kids))]>>

RECURSIVE CloseDownTo(_, _)
CloseDownTo(stack, depth) ==
  IF Len(stack) <= depth THEN stack ELSE CloseDownTo(CloseTop(stack), depth)

AddKid(stack, kid) == [stack EXCEPT ![Len(stack)].kids = Append(@, kid)]

HeadingLevel(t) ==
  CASE t = "<h1>" -> 1 [] t = "<h2>" -> 2 [] t = "<h3>" -> 3
    [] t = "<h4>" -> 4 [] t = "<h5>" -> 5 [] t = "<h6>" -> 6 [] OTHER -> 0

\* the HTML tree builder on the tags markdownToHTML emits: stack holds the open
\* list elements above the body; an end tag without a matching open element is
\* ignored, and elements still open at the end are closed
RECURSIVE HtmlTree(_, _)
HtmlTree(toks, stack) ==
  IF toks = <<>> THEN CloseDownTo(stack, 1)[1].kids
  ELSE
  LET tok == Head(toks)
      rest == Tail(toks)
      upTo(t) == FindTag(toks, t)
      inner(t) == InlineContent(SubSeq(toks, 2, upTo(t) - 1))
      after(t) == Tail2(toks, upTo(t) + 1)
  IN CASE tok.t = "<ul>" -> HtmlTree(rest, Append(stack, [kind |-> "ul", kids |-> <<>>]))
       [] tok.t = "<ol>" -> HtmlTree(rest, Append(stack, [kind |-> "ol", kids |-> <<>>]))
       [] tok.t = "<ul.task>" ->
            HtmlTree(rest, Append(stack, [kind |-> "task", kids |-> <<>>]))
       [] tok.t = "</ul>" ->
            LET S == {i \in 2..Len(stack) : stack[i].kind \in {"ul", "task"}} IN
            IF S = {} THEN HtmlTree(rest, stack)
            ELSE HtmlTree(rest, CloseDownTo(stack, Max(S) - 1))
       [] tok.t = "<li>" ->
            HtmlTree(after("</li>"), AddKid(stack, DomItem("li", FALSE, inner("</li>"))))
       [] tok.t = "<li.task>" ->
            HtmlTree(after("</li>"),
                     AddKid(stack, DomItem("li.task", tok.v = <<"true">>, inner("</li>"))))
       [] tok.t = "<p>" ->
            HtmlTree(after("</p>"), AddKid(stack, DomBlock(Para(inner("</p>")))))
       [] HeadingLevel(tok.t) > 0 ->
            HtmlTree(after("</h>"),
                     AddKid(stack, DomBlock(Heading(HeadingLevel(tok.t), inner("</h>")))))
       [] tok.t = "<blockquote>" ->
            HtmlTree(after("</blockquote>"),
                     AddKid(stack, DomBlock(Blockquote(<<Para(inner("</blockquote>"))>>))))
       [] tok.t = "<hr>" -> HtmlTree(rest, AddKid(stack, DomBlock(Rule)))
       [] tok.t = "<pre>" ->
            HtmlTree(rest, AddKid(stack, DomBlock(CodeBlock(CodeLanguage(tok.v), tok.w))))
       [] tok.t = "<table>" ->
            HtmlTree(after("</table>"),
                     AddKid(stack, DomBlock(Table(RowsOf(SubSeq(toks, 2, upTo("</table>") - 1))))))
       [] OTHER -> HtmlTree(rest, stack)

\* normalizeList: a list that follows a list item inside a list is moved into
\* that item
RECURSIVE NormalizeList(_, _, _)
NormalizeList(kids, out, prev) ==
  IF kids = <<>> THEN out
  ELSE LET kid == Head(kids) IN
       IF kid.d = "list" /\ prev # 0
       THEN NormalizeList(Tail(kids), [out EXCEPT ![prev].kids = Append(@, kid)], prev)
       ELSE IF kid.d = "li"
       THEN NormalizeList(Tail(kids), Append(out, kid), Len(out) + 1)
       ELSE NormalizeList(Tail(kids), Append(out, kid), 0)

\* the paragraphs that remain of a block placed where only list items fit
RECURSIVE ParasOf(_)
ParasOf(nodes) ==
  IF nodes = <<>> THEN <<>>
  ELSE LET n == Head(nodes) IN
       (IF n.type \in {"paragraph", "heading", "code_block"}
        THEN (IF n.inl = <<>> THEN <<>> ELSE <<Para(n.inl)>>)
        ELSE ParasOf(n.kids)) \o ParasOf(Tail(nodes))

ListNode(kind, items) ==
  CASE kind = "ol" -> OrderedList(items)
    [] kind = "ul" -> BulletList(items)
    [] OTHER -> TaskList(items)

ItemNode(kind, checked, kids) ==
  IF kind = "task" THEN TaskItem(checked, kids) ELSE ListItem(kids)

RECURSIVE PmItems(_, _, _, _)
RECURSIVE PmBlocks(_, _, _)

\* the children of a list element as items of a list node of the given kind;
\* open says that the last item is a wrapper that still takes blocks
PmItems(kids, kind, out, open) ==
  IF kids = <<>> THEN out
  ELSE
  LET kid == Head(kids)
      rest == Tail(kids)
      n == Len(out)
      blocks == IF kid.d = "list"
                THEN <<ListNode(kid.kind, PmItems(NormalizeList(kid.kids, <<>>, 0),
                                                  kid.kind, <<>>, FALSE))>>
                ELSE ParasOf(<<kid.node>>)
  IN IF kid.d = "li"
     THEN PmItems(rest, kind,
                  Append(out, ItemNode(kind, kid.kind = "li.task" /\ kid.node.checked,
                                       kid.node.kids \o PmBlocks(kid.kids, <<>>, ""))),
                  FALSE)
     ELSE IF blocks = <<>> THEN PmItems(rest, kind, out, open)
     ELSE IF open THEN PmItems(rest, kind, [out EXCEPT ![n].kids = @ \o blocks], TRUE)
     ELSE IF kid.d = "list" THEN PmItems(rest, kind, out \o blocks[1].kids, FALSE)
     ELSE PmItems(rest, kind, Append(out, ItemNode(kind, FALSE, blocks)), TRUE)

\* the children of the body (or the lists moved into a list item) as blocks;
\* open names the kind of the wrapper list that a stray list item has opened
PmBlocks(kids, out, open) ==
  IF kids = <<>> THEN out
  ELSE
  LET kid == Head(kids)
      rest == Tail(kids)
      n == Len(out)
      wrap == IF kid.kind = "li.task" THEN "task" ELSE "ol"
      item == ItemNode(wrap, kid.node.checked, kid.node.kids \o PmBlocks(kid.kids, <<>>, ""))
  IN IF kid.d = "block" THEN PmBlocks(rest, Append(out, kid.node), "")
     ELSE IF kid.d = "list"
     THEN PmBlocks(rest,
                   Append(out, ListNode(kid.kind, PmItems(NormalizeList(kid.kids, <<>>, 0),
                                                          kid.kind, <<>>, FALSE))),
                   "")
     ELSE IF open = wrap THEN PmBlocks(rest, [out EXCEPT ![n].kids = Append(@, item)], wrap)
     ELSE PmBlocks(rest, Append(out, ListNode(wrap, <<item>>)), wrap)

\* a document holds at least one block, so empty content is filled with an
\* empty paragraph
FillDoc(blocks) == IF blocks = <<>> THEN <<Para(<<>>)>> ELSE blocks

\* the document parsed from a markdown text
ParseDoc(markdown) ==
  FillDoc(PmBlocks(HtmlTree(markdownToHTML(markdown),
                            <<[kind |-> "body", kids |-> <<>>]>>),
                   <<>>, ""))

(***************************************************************************)
(* prosemirrorToMarkdown and getNodeTextContent.  A view is the document   *)
(* with, per top-level block, what the DOM of a rendered diagram holds:    *)
(* the data-original-code attribute and the code kept in the comment.      *)
(***************************************************************************)
MarkRank == <<"link", "em", "strong", "code">>

WrapMark(text, mark) ==
  CASE mark.m = "strong" -> <<"*", "*">> \o text \o <<"*", "*">>
    [] mark.m = "em" -> <<"*">> \o text \o <<"*">>
    [] mark.m = "code" -> <<BQ>> \o text \o <<BQ>>
    [] mark.m = "link" -> <<"[">> \o text \o <<"]", "(">> \o mark.href \o <<")">>
    [] OTHER -> text

\* child.marks.forEach: the marks of a text node in schema order
RECURSIVE WrapMarks(_, _, _)
WrapMarks(text, marks, i) ==
  IF i > Len(MarkRank) THEN text
  ELSE LET ms == {m \in marks : m.m = MarkRank[i]} IN
       WrapMarks(IF ms = {} THEN text ELSE WrapMark(text, CHOOSE m \in ms : TRUE),
                 marks, i + 1)

RECURSIVE InlineText(_)
InlineText(inl) ==
  IF inl = <<>> THEN <<>>
  ELSE LET it == Head(inl) IN
       (IF it.k = "text" THEN WrapMarks(it.text, it.marks, 1)
        ELSE <<"!", "[">> \o it.text \o <<"]", "(">> \o it.src \o <<")">>)
       \o InlineText(Tail(inl))

RECURSIVE getNodeTextContent(_)
RECURSIVE KidsText(_)
getNodeTextContent(node) == InlineText(node.inl) \o KidsText(node.kids)
KidsText(kids) ==
  IF kids = <<>> THEN <<>> ELSE getNodeTextContent(Head(kids)) \o KidsText(Tail(kids))

\* node.textContent: the text without marks
RECURSIVE PlainText(_)
PlainText(inl) ==
  IF inl = <<>> THEN <<>>
  ELSE (IF Head(inl).k = "text" THEN Head(inl).text ELSE <<>>) \o PlainText(Tail(inl))

RECURSIVE Repeat(_, _)
Repeat(c, n) == IF n = 0 THEN <<>> ELSE <<c>> \o Repeat(c, n - 1)

Mermaid == <<"m", "e", "r", "m", "a", "i", "d">>
Fence == <<BQ, BQ, BQ>>

NoDom == [dataCode |-> <<>>, comment |-> <<>>]
ViewOf(d) == [doc |-> d, dom |-> [i \in 1..Len(d) |-> NoDom]]

\* the text of a code block: the original code of a rendered diagram when the
\* node itself is empty
CodeText(node, dom) ==
  LET text == PlainText(node.inl) IN
  IF node.lang = Mermaid /\ Trim(text) = <<>>
  THEN IF dom.dataCode # <<>> THEN dom.dataCode
       ELSE IF dom.comment # <<>> THEN dom.comment
       ELSE text
  ELSE text

RECURSIVE ItemLines(_, _)
ItemLines(items, prefix) ==
  IF items = <<>> THEN <<>>
  ELSE LET it == Head(items)
           pre == IF it.type = "task_item"
                  THEN <<"-", " ", "[", IF it.checked THEN "x" ELSE " ", "]", " ">>
                  ELSE prefix
       IN pre \o getNodeTextContent(it) \o <<NL>> \o ItemLines(Tail(items), prefix)

\* the cells of every row of a table node, trimmed
TableTexts(node) ==
  [r \in 1..Len(node.kids) |->
     [c \in 1..Len(node.kids[r].kids) |-> Trim(getNodeTextContent(node.kids[r].kids[c]))]]

RowLine(cells) == <<"|", " ">> \o Join(cells, <<" ", "|", " ">>) \o <<" ", "|", NL>>

RECURSIVE RowLines(_)
RowLines(rows) ==
  IF rows = <<>> THEN <<>> ELSE RowLine(Head(rows)) \o RowLines(Tail(rows))

\* what the switch statement pushes on blocks for one top-level node
BlockText(node, dom) ==
  CASE node.type = "heading" ->
         Repeat("#", node.level) \o <<" ">> \o getNodeTextContent(node) \o <<NL>>
    [] node.type = "paragraph" ->
         IF Trim(getNodeTextContent(node)) # <<>>
         THEN getNodeTextContent(node) \o <<NL>> ELSE <<>>
    [] node.type = "blockquote" -> <<">", " ">> \o getNodeTextContent(node) \o <<NL>>
    [] node.type = "code_block" ->
         Fence \o node.lang \o <<NL>> \o CodeText(node, dom) \o <<NL>> \o Fence \o <<NL>>
    [] node.type = "ordered_list" -> ItemLines(node.kids, <<"1", ".", " ">>) \o <<NL>>
    [] node.type = "bullet_list" -> ItemLines(node.kids, <<"-", " ">>) \o <<NL>>
    [] node.type = "task_list" -> ItemLines(node.kids, <<"-", " ">>) \o <<NL>>
    [] node.type = "horizontal_rule" -> <<"-", "-", "-", NL, NL>>
    [] node.type = "table" ->
         LET table == TableTexts(node) IN
         IF Len(table) > 0
         THEN RowLine(table[1]) \o RowLine([c \in 1..Len(table[1]) |-> <<"-", "-", "-">>])
              \o RowLines(Tail(table)) \o <<NL>>
         ELSE <<>>
    [] OTHER -> <<>>

RECURSIVE BlocksText(_, _, _)
BlocksText(doc, dom, i) ==
  IF i > Len(doc) THEN <<>>
  ELSE BlockText(doc[i], dom[i]) \o BlocksText(doc, dom, i + 1)

prosemirrorToMarkdown(view) == BlocksText(view.doc, view.dom, 1)

Serialize(d) == prosemirrorToMarkdown(ViewOf(d))

(***************************************************************************)
(* The reconciliation controller: the WysiwygEditor component inside the   *)
(* Home page.  Home holds the markdown text (content), mounts the editor   *)
(* in wysiwyg mode and passes handleEditorChange as onChange.              *)
(***************************************************************************)
VARIABLES
  content,              \* Home: the markdown state, passed as the content prop
  mounted,              \* Home: editorMode = 'wysiwyg', the editor is mounted
  doc,                  \* view.state.doc
  updateTimeoutRef,     \* 0 for null, else the id returned by setTimeout
  timers,               \* the ids of the timeouts that are armed and not yet run
  isUpdatingRef,
  isExternalUpdateRef,
  lastMarkdownRef,
  effectPending,        \* the external-content effect is due (a dependency changed)
  ev,                   \* the handler that ran last
  emitCount,            \* calls of onChange since the last outside event
  replCount,            \* wholesale replacements since the last outside event
  stepCount,            \* timer callbacks and effect runs since the last outside event
  burstN,               \* user transactions of the current burst
  burstClosed,          \* the timer of the current burst has fired
  burstEmits,           \* calls of onChange since the current burst began
  burstDoc,             \* the tree after the last transaction of the burst
  deferred,             \* the current content met a pending timer when it arrived
  unsaved,              \* a user edit is in the tree and content does not show it
  rtPc, rtDoc, rtMd, rtBack, \* the round-trip run: stage, input, text, result
  rtDom,                \* what the DOM holds for each block of rtDoc
  rtMd2,                \* the serialization of rtBack
  cmPc,                 \* source editor paste: off, idle, pending, done, failed
  cmDoc,                \* source editor: view.state.doc, a text
  cmKind,               \* the clipboard payload: html, image or video
  cmStart,              \* placeholderStart
  cmAt,                 \* where the placeholder is now
  cmEdits,              \* user edits since the paste
  cmToast,              \* toast.error was called
  pmPc,                 \* rich editor paste: off, idle, pending, done, failed
  pmDoc,                \* rich editor: the texts of the paragraphs of view.state.doc
  pmFrom,               \* the from captured by handlePaste
  pmAt,                 \* the index of the placeholder paragraph
  pmEdits,              \* user edits since the paste
  pmToast,              \* toast.error was called
  asValue,              \* useAutoSave: the value state
  asStored,             \* localStorage.getItem(key): <<>> when absent, else <<text>>
  asTimers,             \* the timeouts that are armed, each with the value it captured
  asHandler,            \* the timeout the cleanup of the last effect run clears
  asEffectDue,          \* value changed and the effect has not run yet
  asChanges,            \* calls of setValue with a new value
  upPc,                 \* media paste or drop: off, idle, uploading, done, failed
  upDoc,                \* the paragraphs of the document, an image being one item
  upBefore,             \* the document when the paste or drop happened
  upCalls,              \* calls of uploadImage or uploadVideo in this attempt
  upErrors,             \* toast.error calls
  upKind,               \* image or video
  upVia,                \* paste or drop
  upProvider,           \* defaultImageUploadProvider is set
  upSel,                \* view.state.selection.from: paragraph and offset
  upPos,                \* coords.pos of the drop: paragraph and offset
  upEdits,              \* characters typed while the upload runs
  kmDoc,                \* keymap: the blocks of the document
  kmSel,                \* state.selection: kind, block, item (0 outside a task list)
  kmKeys,               \* Mod-Shift-C presses handled
  mmPc,                 \* renderMermaidDiagrams: off, idle, rendering
  mmDoc,                \* the blocks of the document
  mmOrig,               \* the blocks before any diagram was rendered
  mmDom,                \* per block: data-original-code, comment, class mermaid-diagram
  mmCur,                \* the block the loop is at, 0 before the loop
  mmRuns,               \* invocations of renderMermaidDiagrams
  mmFailed,             \* blocks whose last rendering threw
  mmOut                 \* the last result of prosemirrorToMarkdown, in a 1-tuple

ctlVars == <<content, mounted, doc, updateTimeoutRef, timers, isUpdatingRef,
             isExternalUpdateRef, lastMarkdownRef, effectPending>>
obsVars == <<ev, emitCount, replCount, stepCount, burstN,
             burstClosed, burstEmits, burstDoc, deferred, unsaved>>
rtVars == <<rtPc, rtDoc, rtMd, rtBack, rtDom, rtMd2>>
cmVars == <<cmPc, cmDoc, cmKind, cmStart, cmAt, cmEdits, cmToast>>
pmVars == <<pmPc, pmDoc, pmFrom, pmAt, pmEdits, pmToast>>
pasteVars == <<cmVars, pmVars>>
saveVars == <<asValue, asStored, asTimers, asHandler, asEffectDue, asChanges>>
mediaVars == <<upPc, upDoc, upBefore, upCalls, upErrors, upKind, upVia, upProvider,
               upSel, upPos, upEdits>>
keyVars == <<kmDoc, kmSel, kmKeys>>
diagramVars == <<mmPc, mmDoc, mmOrig, mmDom, mmCur, mmRuns, mmFailed, mmOut>>
auxVars == <<saveVars, mediaVars, keyVars, diagramVars>>
vars == <<ctlVars, obsVars, rtVars, pasteVars, auxVars>>

\* bounds of the model
MaxBlocks == 2
MaxText == 2
MaxBurst == 2
NumTimerIds == 2
MaxSteps == 4
MaxRTBlocks == 2
MaxCols == 2
MaxRows == 2
MaxTasks == 2
MaxCodeLines == 2
MaxListLines == 3

TimerIds == 1..NumTimerIds
EmptyDoc == <<Para(<<>>)>>

\* the external texts: a stable one, one without the final newline, a heading
ExtTexts ==
  { <<"a", NL>>, <<"a">>, <<"#", " ", "a", NL>> }
EditChars == {"b"}

(***************************************************************************)
(* User transactions: typing a character at the end of the document,       *)
(* Backspace at the end, Enter at the end.                                 *)
(***************************************************************************)
IsTextblock(n) == n.type \in {"paragraph", "heading"}

TypeChar(d, c) ==
  LET n == Len(d)
      inl == d[n].inl
      k == Len(inl)
      marks == IF k > 0 /\ inl[k].k = "text"
               THEN {m \in inl[k].marks : m.m # "link"} ELSE {}
  IN IF IsTextblock(d[n])
     THEN IF k > 0 /\ inl[k].k = "text" /\ inl[k].marks = marks
          THEN [d EXCEPT ![n].inl[k].text = Append(@, c)]
          ELSE [d EXCEPT ![n].inl = Append(@, Txt(<<c>>, marks))]
     ELSE Append(d, Para(<<Txt(<<c>>, {})>>))

Backspace(d) ==
  LET n == Len(d)
      inl == d[n].inl
      k == Len(inl)
  IN IF IsTextblock(d[n]) /\ k > 0 /\ inl[k].k = "text"
     THEN IF Len(inl[k].text) = 1
          THEN [d EXCEPT ![n].inl = SubSeq(@, 1, k - 1)]
          ELSE [d EXCEPT ![n].inl[k].text = SubSeq(@, 1, Len(@) - 1)]
     ELSE IF n > 1 THEN SubSeq(d, 1, n - 1) ELSE d

SplitBlock(d) == Append(d, Para(<<>>))

WithinBounds(d) ==
  /\ Len(d) <= MaxBlocks
  /\ Len(PlainText(d[Len(d)].inl)) <= MaxText

\* the documents one docChanged user transaction leads to
UserTransactions(d) ==
  {e \in {TypeChar(d, c) : c \in EditChars} \cup {Backspace(d), SplitBlock(d)} :
     e # d /\ WithinBounds(e)}

(***************************************************************************)
(* The handlers.  Each handler sets the controller's variables; the timer  *)
(* callback and the effect also count what they did (emitCount, replCount) *)
(* and the steps of Next add the bookkeeping of the remaining observers.   *)
(***************************************************************************)
\* Home.handleEditorChange: setMarkdown(value); a changed prop makes the
\* external-content effect of the mounted editor due
OnChange(value) ==
  /\ content' = value
  /\ effectPending' = (effectPending \/ (mounted /\ value # content))
  /\ emitCount' = emitCount + 1

\* dispatchTransaction without the external-update flag: every transaction
\* that changes the document is taken for a user edit
DispatchTransaction_NoFlag(tr, ext) ==
  /\ doc' = tr.doc
  /\ isExternalUpdateRef' = ext
  /\ IF tr.docChanged
     THEN /\ isUpdatingRef' = TRUE
          /\ \E id \in TimerIds \ (timers \cup {updateTimeoutRef}) :
               /\ \A j \in TimerIds \ (timers \cup {updateTimeoutRef}) : id <= j
               /\ timers' = (timers \ {updateTimeoutRef}) \cup {id}
               /\ updateTimeoutRef' = id
     ELSE UNCHANGED <<isUpdatingRef, updateTimeoutRef, timers>>

\* dispatchTransaction; tr is the transaction (the document it leads to and
\* its docChanged), ext the value of isExternalUpdateRef when it is called
\* the handler that arms a new timeout without clearing the pending one
DispatchTransaction_NoClear(tr, ext) ==
  /\ doc' = tr.doc
  /\ IF tr.docChanged
     THEN IF ext
          THEN /\ isExternalUpdateRef' = FALSE
               /\ UNCHANGED <<isUpdatingRef, updateTimeoutRef, timers>>
          ELSE /\ isExternalUpdateRef' = FALSE
               /\ isUpdatingRef' = TRUE
               /\ \E id \in TimerIds \ (timers \cup {updateTimeoutRef}) :
                    /\ \A j \in TimerIds \ (timers \cup {updateTimeoutRef}) : id <= j
                    /\ timers' = timers \cup {id}
                    /\ updateTimeoutRef' = id
     ELSE /\ isExternalUpdateRef' = ext
          /\ UNCHANGED <<isUpdatingRef, updateTimeoutRef, timers>>

DispatchTransaction(tr, ext) ==
  /\ doc' = tr.doc
  /\ IF tr.docChanged
     THEN IF ext
          THEN /\ isExternalUpdateRef' = FALSE
               /\ UNCHANGED <<isUpdatingRef, updateTimeoutRef, timers>>
          ELSE /\ isExternalUpdateRef' = FALSE
               /\ isUpdatingRef' = TRUE
               /\ \E id \in TimerIds \ (timers \cup {updateTimeoutRef}) :
                    /\ \A j \in TimerIds \ (timers \cup {updateTimeoutRef}) : id <= j
                    /\ timers' = (timers \ {updateTimeoutRef}) \cup {id}
                    /\ updateTimeoutRef' = id
     ELSE /\ isExternalUpdateRef' = ext
          /\ UNCHANGED <<isUpdatingRef, updateTimeoutRef, timers>>

\* a transaction from user interaction that changes the document
UserTransaction(e) ==
  /\ mounted
  /\ DispatchTransaction([doc |-> e, docChanged |-> TRUE], isExternalUpdateRef)
  /\ UNCHANGED <<content, mounted, lastMarkdownRef, effectPending>>

\* the callback without the comparison with the baseline: it always emits
TimerFire_AlwaysEmit(id) ==
  /\ id \in timers
  /\ timers' = timers \ {id}
  /\ lastMarkdownRef' = prosemirrorToMarkdown(ViewOf(doc))
  /\ OnChange(prosemirrorToMarkdown(ViewOf(doc)))
  /\ isUpdatingRef' = FALSE
  /\ UNCHANGED <<mounted, doc, updateTimeoutRef, isExternalUpdateRef, replCount>>

\* the callback that emits without storing the emitted text as the baseline
TimerFire_KeepBaseline(id) ==
  /\ id \in timers
  /\ timers' = timers \ {id}
  /\ LET markdown == prosemirrorToMarkdown(ViewOf(doc)) IN
     IF markdown # lastMarkdownRef
     THEN OnChange(markdown)
     ELSE UNCHANGED <<content, effectPending, emitCount>>
  /\ isUpdatingRef' = FALSE
  /\ UNCHANGED <<mounted, doc, updateTimeoutRef, isExternalUpdateRef, replCount,
                 lastMarkdownRef>>

\* the callback of a timer armed with setInterval: it stays armed
TimerFire_Interval(id) ==
  /\ id \in timers
  /\ timers' = timers
  /\ LET markdown == prosemirrorToMarkdown(ViewOf(doc)) IN
     IF markdown # lastMarkdownRef
     THEN /\ lastMarkdownRef' = markdown
          /\ OnChange(markdown)
     ELSE UNCHANGED <<lastMarkdownRef, content, effectPending, emitCount>>
  /\ isUpdatingRef' = FALSE
  /\ UNCHANGED <<mounted, doc, updateTimeoutRef, isExternalUpdateRef, replCount>>

\* the callback of the debounce timeout with the given id
TimerFire(id) ==
  /\ id \in timers
  /\ timers' = timers \ {id}
  /\ LET markdown == prosemirrorToMarkdown(ViewOf(doc)) IN
     IF markdown # lastMarkdownRef
     THEN /\ lastMarkdownRef' = markdown
          /\ OnChange(markdown)
     ELSE UNCHANGED <<lastMarkdownRef, content, effectPending, emitCount>>
  /\ isUpdatingRef' = FALSE
  /\ UNCHANGED <<mounted, doc, updateTimeoutRef, isExternalUpdateRef, replCount>>

\* the effect comparing content with the baseline, not with the serialization
RunEffect_CompareBaseline ==
  /\ mounted
  /\ effectPending
  /\ effectPending' = FALSE
  /\ IF isUpdatingRef \/ updateTimeoutRef # 0
     THEN UNCHANGED <<doc, isExternalUpdateRef, isUpdatingRef, updateTimeoutRef,
                      timers, lastMarkdownRef, replCount>>
     ELSE IF lastMarkdownRef # content
     THEN /\ DispatchTransaction([doc |-> ParseDoc(content), docChanged |-> TRUE], TRUE)
          /\ lastMarkdownRef' = content
          /\ replCount' = replCount + 1
     ELSE UNCHANGED <<doc, isExternalUpdateRef, isUpdatingRef, updateTimeoutRef,
                      timers, lastMarkdownRef, replCount>>
  /\ UNCHANGED <<content, mounted, emitCount>>

\* the effect without the early return while the user is typing
RunEffect_NoGuard ==
  /\ mounted
  /\ effectPending
  /\ effectPending' = FALSE
  /\ IF prosemirrorToMarkdown(ViewOf(doc)) # content
     THEN /\ DispatchTransaction([doc |-> ParseDoc(content), docChanged |-> TRUE], TRUE)
          /\ lastMarkdownRef' = content
          /\ replCount' = replCount + 1
     ELSE UNCHANGED <<doc, isExternalUpdateRef, isUpdatingRef, updateTimeoutRef,
                      timers, lastMarkdownRef, replCount>>
  /\ UNCHANGED <<content, mounted, emitCount>>

\* the effect that inserts the parsed content after the old content
RunEffect_Append ==
  /\ mounted
  /\ effectPending
  /\ effectPending' = FALSE
  /\ IF isUpdatingRef \/ updateTimeoutRef # 0
     THEN UNCHANGED <<doc, isExternalUpdateRef, isUpdatingRef, updateTimeoutRef,
                      timers, lastMarkdownRef, replCount>>
     ELSE IF prosemirrorToMarkdown(ViewOf(doc)) # content
     THEN /\ DispatchTransaction([doc |-> doc \o ParseDoc(content), docChanged |-> TRUE], TRUE)
          /\ lastMarkdownRef' = content
          /\ replCount' = replCount + 1
     ELSE UNCHANGED <<doc, isExternalUpdateRef, isUpdatingRef, updateTimeoutRef,
                      timers, lastMarkdownRef, replCount>>
  /\ UNCHANGED <<content, mounted, emitCount>>

\* the external-content effect.  The replace transaction covers the whole
\* content of a document that is never empty, so it has a step and its
\* docChanged is true.
RunEffect ==
  /\ mounted
  /\ effectPending
  /\ effectPending' = FALSE
  /\ IF isUpdatingRef \/ updateTimeoutRef # 0
     THEN UNCHANGED <<doc, isExternalUpdateRef, isUpdatingRef, updateTimeoutRef,
                      timers, lastMarkdownRef, replCount>>
     ELSE IF prosemirrorToMarkdown(ViewOf(doc)) # content
     THEN /\ DispatchTransaction([doc |-> ParseDoc(content), docChanged |-> TRUE], TRUE)
          /\ lastMarkdownRef' = content
          /\ replCount' = replCount + 1
     ELSE UNCHANGED <<doc, isExternalUpdateRef, isUpdatingRef, updateTimeoutRef,
                      timers, lastMarkdownRef, replCount>>
  /\ UNCHANGED <<content, mounted, emitCount>>

\* the cleanup of the initialising effect, run when Home leaves wysiwyg mode
Unmount ==
  /\ mounted
  /\ mounted' = FALSE
  /\ timers' = timers \ {updateTimeoutRef}
  /\ effectPending' = FALSE
  /\ UNCHANGED <<content, doc, updateTimeoutRef, isUpdatingRef, isExternalUpdateRef,
                 lastMarkdownRef>>

\* Home enters wysiwyg mode: a new component with fresh refs; the initialising
\* effect builds the view from content and sets isReady, which makes the
\* external-content effect due
Mount ==
  /\ ~mounted
  /\ mounted' = TRUE
  /\ doc' = ParseDoc(content)
  /\ lastMarkdownRef' = prosemirrorToMarkdown(ViewOf(doc'))
  /\ updateTimeoutRef' = 0
  /\ isUpdatingRef' = FALSE
  /\ isExternalUpdateRef' = FALSE
  /\ effectPending' = TRUE
  /\ UNCHANGED <<content, timers>>

\* Home's markdown changes by another hand than the editor's onChange: the
\* source editor, a file that is opened, a download
ExternalChange(t) ==
  /\ t # content
  /\ content' = t
  /\ effectPending' = mounted
  /\ UNCHANGED <<mounted, doc, updateTimeoutRef, timers, isUpdatingRef,
                 isExternalUpdateRef, lastMarkdownRef>>

(***************************************************************************)
(* The steps: a handler and the observers' bookkeeping.                    *)
(***************************************************************************)
\* an outside event starts the counts anew
Outside(kind) ==
  /\ ev' = kind
  /\ stepCount' = 0

\* React runs the effects of a commit before it handles a later event or
\* timer, so an effect that is due runs before anything else happens
EffectsFlushed == ~effectPending

BurstOngoing == updateTimeoutRef \in timers /\ ~burstClosed /\ burstN > 0

UserStep ==
  /\ EffectsFlushed
  /\ BurstOngoing => burstN < MaxBurst
  /\ \E e \in UserTransactions(doc) :
       /\ UserTransaction(e) /\ emitCount' = 0 /\ replCount' = 0
  /\ Outside("edit")
  /\ burstN' = IF BurstOngoing THEN burstN + 1 ELSE 1
  /\ burstClosed' = FALSE
  /\ burstEmits' = IF BurstOngoing THEN burstEmits ELSE 0
  /\ burstDoc' = doc'
  /\ unsaved' = TRUE
  /\ UNCHANGED <<deferred, rtVars, pasteVars, auxVars>>

FireStep ==
  /\ EffectsFlushed
  /\ stepCount < MaxSteps
  /\ \E id \in timers :
       /\ TimerFire(id)
       /\ burstClosed' = (burstClosed \/ id = updateTimeoutRef)
  /\ ev' = "fire"
  /\ stepCount' = stepCount + 1
  /\ burstEmits' = burstEmits + (emitCount' - emitCount)
  /\ deferred' = (deferred /\ content' = content)
  /\ unsaved' = (unsaved /\ content' # prosemirrorToMarkdown(ViewOf(doc)))
  /\ UNCHANGED <<burstN, burstDoc, rtVars, pasteVars, auxVars>>

EffectStep ==
  /\ stepCount < MaxSteps
  /\ RunEffect
  /\ ev' = "effect"
  /\ stepCount' = stepCount + 1
  /\ deferred' = IF replCount' # replCount THEN FALSE
                 ELSE IF timers # {} /\ content # prosemirrorToMarkdown(ViewOf(doc))
                 THEN TRUE ELSE deferred
  /\ unsaved' = (unsaved /\ replCount' = replCount)
  /\ UNCHANGED <<burstN, burstClosed, burstEmits, burstDoc, rtVars, pasteVars, auxVars>>

ExtStep ==
  /\ EffectsFlushed
  /\ \E t \in ExtTexts : ExternalChange(t) /\ emitCount' = 0 /\ replCount' = 0
  /\ Outside("ext")
  /\ deferred' = FALSE
  /\ UNCHANGED <<burstN, burstClosed, burstEmits, burstDoc, unsaved, rtVars, pasteVars, auxVars>>

UnmountStep ==
  /\ EffectsFlushed
  /\ Unmount /\ emitCount' = 0 /\ replCount' = 0
  /\ Outside("unmount")
  /\ deferred' = FALSE
  /\ UNCHANGED <<burstN, burstClosed, burstEmits, burstDoc, unsaved, rtVars, pasteVars, auxVars>>

MountStep ==
  /\ Mount /\ emitCount' = 0 /\ replCount' = 0
  /\ Outside("mount")
  /\ burstN' = 0
  /\ burstClosed' = FALSE
  /\ burstEmits' = 0
  /\ burstDoc' = doc'
  /\ deferred' = FALSE
  /\ unsaved' = FALSE
  /\ UNCHANGED <<rtVars, pasteVars, auxVars>>

\* Home starts in source mode with the stored or the default markdown
InitCtl ==
  /\ mounted = FALSE
  /\ doc = EmptyDoc
  /\ updateTimeoutRef = 0
  /\ timers = {}
  /\ isUpdatingRef = FALSE
  /\ isExternalUpdateRef = FALSE
  /\ lastMarkdownRef = <<>>
  /\ effectPending = FALSE
  /\ ev = "init"
  /\ emitCount = 0
  /\ replCount = 0
  /\ stepCount = 0
  /\ burstN = 0
  /\ burstClosed = FALSE
  /\ burstEmits = 0
  /\ burstDoc = EmptyDoc
  /\ deferred = FALSE
  /\ unsaved = FALSE

InitSaveOff ==
  /\ asValue = <<>> /\ asStored = <<>> /\ asTimers = {} /\ asHandler = 0
  /\ asEffectDue = FALSE /\ asChanges = 0

InitMediaOff ==
  /\ upPc = "off" /\ upDoc = <<<<>>>> /\ upBefore = <<<<>>>> /\ upCalls = 0
  /\ upErrors = 0 /\ upKind = "none" /\ upVia = "none" /\ upProvider = FALSE
  /\ upSel = <<1, 0>> /\ upPos = <<1, 0>> /\ upEdits = 0

InitKeyOff ==
  /\ kmDoc = <<>> /\ kmSel = [kind |-> "none", blk |-> 0, item |-> 0] /\ kmKeys = 0

InitDiagramOff ==
  /\ mmPc = "off" /\ mmDoc = <<>> /\ mmOrig = <<>> /\ mmDom = <<>> /\ mmCur = 0
  /\ mmRuns = 0 /\ mmFailed = {} /\ mmOut = <<>>

InitAuxOff ==
  /\ InitSaveOff
  /\ InitMediaOff
  /\ InitKeyOff
  /\ InitDiagramOff

InitPasteOff ==
  /\ cmPc = "off" /\ cmDoc = <<>> /\ cmKind = "none" /\ cmStart = 0 /\ cmAt = 0
  /\ cmEdits = 0 /\ cmToast = FALSE
  /\ pmPc = "off" /\ pmDoc = <<<<>>>> /\ pmFrom = 0 /\ pmAt = 0
  /\ pmEdits = 0 /\ pmToast = FALSE

InitRTIdle ==
  /\ rtPc = "idle"
  /\ rtDoc = EmptyDoc
  /\ rtDom = <<NoDom>>
  /\ rtMd = <<>>
  /\ rtBack = EmptyDoc
  /\ rtMd2 = <<>>

Init ==
  /\ content \in ExtTexts
  /\ InitCtl
  /\ InitRTIdle
  /\ InitPasteOff
  /\ InitAuxOff

Next ==
  \/ UserStep
  \/ FireStep
  \/ EffectStep
  \/ ExtStep
  \/ UnmountStep
  \/ MountStep

Spec == Init /\ [][Next]_vars

(***************************************************************************)
(* The round trip of the serializer and the parser, run on documents of    *)
(* the non-lossy subset: paragraph, heading, strong, em, code, link,       *)
(* bullet and ordered list, blockquote, horizontal rule.                   *)
(***************************************************************************)
RTInline ==
  { <<>>,
    <<Txt(<<"a">>, {})>>,
    <<Txt(<<"a">>, {Mk("strong")})>>,
    <<Txt(<<"a">>, {Mk("em")})>>,
    <<Txt(<<"a">>, {Mk("code")})>>,
    <<Txt(<<"a">>, {Link(<<"u">>)})>>,
    <<Txt(<<"a">>, {}), Txt(<<"b">>, {Mk("strong")})>> }

PlainItem(c) == ListItem(<<Para(<<Txt(<<c>>, {})>>)>>)

RTBlocks ==
  {Para(i) : i \in RTInline}
    \cup { Heading(1, <<Txt(<<"a">>, {})>>),
           Heading(2, <<Txt(<<"a">>, {Mk("strong")})>>),
           Blockquote(<<Para(<<Txt(<<"a">>, {})>>)>>),
           Rule,
           BulletList(<<PlainItem("a")>>),
           BulletList(<<PlainItem("a"), PlainItem("b")>>),
           OrderedList(<<PlainItem("a")>>),
           OrderedList(<<PlainItem("a"), PlainItem("b")>>) }

RTDocs == UNION {[1..k -> RTBlocks] : k \in 1..MaxRTBlocks}

RTSerialize ==
  /\ rtPc = "start"
  /\ rtMd' = prosemirrorToMarkdown([doc |-> rtDoc, dom |-> rtDom])
  /\ rtPc' = "serialized"
  /\ UNCHANGED <<rtDoc, rtBack, rtDom, rtMd2, ctlVars, obsVars, pasteVars, auxVars>>

RTParse ==
  /\ rtPc = "serialized"
  /\ rtBack' = ParseDoc(rtMd)
  /\ rtPc' = "parsed"
  /\ UNCHANGED <<rtDoc, rtMd, rtDom, rtMd2, ctlVars, obsVars, pasteVars, auxVars>>

InitRT ==
  /\ content = <<>>
  /\ InitCtl
  /\ rtPc = "start"
  /\ rtDoc \in RTDocs
  /\ rtDom = ViewOf(rtDoc).dom
  /\ rtMd = <<>>
  /\ rtBack = EmptyDoc
  /\ rtMd2 = <<>>
  /\ InitPasteOff
  /\ InitAuxOff

NextRT ==
  \/ RTSerialize
  \/ RTParse

SpecRT == InitRT /\ [][NextRT]_vars

(***************************************************************************)
(* Repeated round trips, on documents that also hold tables, task lists    *)
(* and code blocks: serialize, parse, serialize again.                     *)
(***************************************************************************)
PlainCell(c) == TableCell(<<Para(<<Txt(<<c>>, {})>>)>>)
PlainTask(checked, c) == TaskItem(checked, <<Para(<<Txt(<<c>>, {})>>)>>)

IdemBlocks ==
  { Para(<<Txt(<<"a">>, {})>>),
    Heading(1, <<Txt(<<"a">>, {})>>),
    Rule,
    BulletList(<<PlainItem("a"), PlainItem("b")>>),
    OrderedList(<<PlainItem("a"), PlainItem("b")>>),
    TaskList(<<PlainTask(TRUE, "a"), PlainTask(FALSE, "b")>>),
    Table(<<TableRow(<<PlainCell("a")>>), TableRow(<<PlainCell("b")>>)>>),
    Table(<<TableRow(<<PlainCell("a"), PlainCell("b")>>),
            TableRow(<<PlainCell("c"), PlainCell("d")>>)>>),
    Table(<<TableRow(<<PlainCell("|"), PlainCell("a")>>)>>),
    CodeBlock(<<>>, <<"a">>),
    CodeBlock(<<"j", "s">>, <<"a", NL, "b">>) }

IdemDocs == UNION {[1..k -> IdemBlocks] : k \in 1..MaxRTBlocks}

RTReserialize ==
  /\ rtPc = "parsed"
  /\ rtMd2' = prosemirrorToMarkdown(ViewOf(rtBack))
  /\ rtPc' = "reserialized"
  /\ UNCHANGED <<rtDoc, rtMd, rtBack, rtDom, ctlVars, obsVars, pasteVars, auxVars>>

InitIdem ==
  /\ content = <<>>
  /\ InitCtl
  /\ rtPc = "start"
  /\ rtDoc \in IdemDocs
  /\ rtDom = ViewOf(rtDoc).dom
  /\ rtMd = <<>>
  /\ rtBack = EmptyDoc
  /\ rtMd2 = <<>>
  /\ InitPasteOff
  /\ InitAuxOff

NextIdem ==
  \/ RTSerialize
  \/ RTParse
  \/ RTReserialize

SpecIdem == InitIdem /\ [][NextIdem]_vars

(***************************************************************************)
(* The parser and the serializer on markdown texts of given shapes.  A     *)
(* case is a text together with the tree that the text is written for;     *)
(* the run parses the text and serializes the result.                      *)
(***************************************************************************)
\* a pipe table: a header row of a's, a separator row, k data rows of b's
PipeRow(cols, cell) ==
  <<"|">> \o Join([c \in 1..cols |-> <<" ">> \o cell \o <<" ", "|">>], <<>>)
SeparatorRow(cols, spaced) ==
  IF spaced THEN PipeRow(cols, <<"-", "-", "-">>)
  ELSE <<"|">> \o Join([c \in 1..cols |-> <<"-", "-", "-", "|">>], <<>>)

TableCase(cols, k, spaced) ==
  [kind |-> "table",
   text |-> Join(<<PipeRow(cols, <<"a">>), SeparatorRow(cols, spaced)>>
                   \o [r \in 1..k |-> PipeRow(cols, <<"b">>)], <<NL>>),
   tree |-> <<Table(<<TableRow([c \in 1..cols |-> PlainCell("a")])>>
                      \o [r \in 1..k |-> TableRow([c \in 1..cols |-> PlainCell("b")])])>>]

TableCases ==
  {TableCase(cols, k, spaced) : cols \in 1..MaxCols, k \in 0..MaxRows, spaced \in BOOLEAN}

\* a run of task lines; marks[i] is the check mark of line i: x, X or a blank
TaskLetters == <<"a", "b", "c", "d">>
TaskLine(mark, c) == <<"-", " ", "[", mark, "]", " ", c>>

TaskCase(marks) ==
  [kind |-> "task",
   text |-> Join([i \in 1..Len(marks) |-> TaskLine(marks[i], TaskLetters[i])], <<NL>>),
   tree |-> <<TaskList([i \in 1..Len(marks) |->
                          PlainTask(marks[i] \in {"x", "X"}, TaskLetters[i])])>>]

TaskCases ==
  {TaskCase(marks) : marks \in UNION {[1..n -> {"x", "X", " "}] : n \in 1..MaxTasks}}

\* a fenced block: an opening fence with an info string, body lines and,
\* when closed, a closing fence
FenceLangs == {<<>>, <<"j", "s">>, <<"c", "+", "+">>}
CodeLines == {<<"a">>, <<>>, <<" ", "b">>}

FenceCase(lang, body, closed) ==
  [kind |-> IF closed THEN "fence" ELSE "open fence",
   text |-> Join(<<Fence \o lang>> \o body \o (IF closed THEN <<Fence>> ELSE <<>>), <<NL>>),
   tree |-> <<CodeBlock(lang, Join(body, <<NL>>))>>]

FenceCases ==
  {FenceCase(lang, body, closed) :
     lang \in FenceLangs,
     body \in UNION {[1..n -> CodeLines] : n \in 0..MaxCodeLines},
     closed \in BOOLEAN}

\* list lines of the three kinds in every order; line i carries letter i
ListKinds == {"bullet", "ordered", "task"}

ListLine(kind, i) ==
  CASE kind = "bullet" -> <<"-", " ", TaskLetters[i]>>
    [] kind = "ordered" -> <<"1", ".", " ", TaskLetters[i]>>
    [] kind = "task" -> TaskLine(" ", TaskLetters[i])

\* the lists a run of list lines stands for: consecutive lines of one kind
\* make one list
RECURSIVE ListGroups(_, _, _)
ListGroups(kinds, i, out) ==
  IF i > Len(kinds) THEN out
  ELSE LET item == IF kinds[i] = "task" THEN PlainTask(FALSE, TaskLetters[i])
                   ELSE PlainItem(TaskLetters[i])
           fresh == N(CASE kinds[i] = "bullet" -> "bullet_list"
                        [] kinds[i] = "ordered" -> "ordered_list"
                        [] kinds[i] = "task" -> "task_list",
                      0, <<>>, FALSE, <<>>, <<item>>)
       IN IF i > 1 /\ kinds[i - 1] = kinds[i]
          THEN ListGroups(kinds, i + 1,
                          [out EXCEPT ![Len(out)].kids = Append(@, item)])
          ELSE ListGroups(kinds, i + 1, Append(out, fresh))

ListCase(kinds) ==
  [kind |-> "list",
   text |-> Join([i \in 1..Len(kinds) |-> ListLine(kinds[i], i)], <<NL>>),
   tree |-> ListGroups(kinds, 1, <<>>)]

ListCases == {ListCase(kinds) : kinds \in UNION {[1..n -> ListKinds] : n \in 1..MaxListLines}}

MdCases == TableCases \cup TaskCases \cup FenceCases \cup ListCases

InitMd ==
  /\ content = <<>>
  /\ InitCtl
  /\ rtPc = "serialized"
  /\ \E case \in MdCases : rtMd = case.text /\ rtDoc = case.tree
  /\ rtDom = ViewOf(rtDoc).dom
  /\ rtBack = EmptyDoc
  /\ rtMd2 = <<>>
  /\ InitPasteOff
  /\ InitAuxOff

NextMd ==
  \/ RTParse
  \/ RTReserialize

SpecMd == InitMd /\ [][NextMd]_vars

(***************************************************************************)
(* Paste of rich HTML, an image or a video.  Both editing surfaces put a   *)
(* placeholder into the document at once, start the conversion or upload,  *)
(* and dispatch one more transaction when it settles.  The source editor   *)
(* (Editor.tsx) holds a text; the rich editor (handlePaste) holds a tree,  *)
(* taken here as the texts of its top-level paragraphs.                    *)
(***************************************************************************)
MaxPasteText == 2
MaxPasteEdits == 1

Processing == <<"P", "r", "o", "c", "e", "s", "s", "i", "n", "g", ".", ".", ".">>
UploadingImage == <<"!", "[", "U", "p", "l", "o", "a", "d", "i", "n", "g", ".", ".", ".", "]", "(", ")">>
UploadingVideo == <<"<", "p", ">", "U", "p", "l", "o", "a", "d", "i", "n", "g", " ", "v", "i", "d", "e", "o", ".", ".", ".", "<", "/", "p", ">">>

\* the placeholder the paste handler of the source editor inserts
CmPlaceholder(kind) ==
  CASE kind = "html" -> Processing
    [] kind = "image" -> UploadingImage
    [] kind = "video" -> UploadingVideo

PasteKinds == {"html", "image", "video"}
ProcessingChars == {Processing[i] : i \in 1..Len(Processing)}

\* the texts the conversion or the upload settles with
PasteResults == {<<"m">>}
TypedChar == "z"

\* the texts of at most MaxPasteText characters
PasteTexts == UNION {[1..n -> {"a", "b"}] : n \in 0..MaxPasteText}

\* changes: {from, to, insert} of a text; offsets count from 0
Splice(text, from, to, insert) ==
  SubSeq(text, 1, from) \o insert \o SubSeq(text, to + 1, Len(text))

\* ChangeSet.of rejects a range that ends past the document
CmInRange(text, from, to) == from <= to /\ to <= Len(text)

\* paste: the selection becomes the placeholder
CmPaste(kind, from, to) ==
  /\ cmPc = "idle"
  /\ cmDoc' = Splice(cmDoc, from, to, CmPlaceholder(kind))
  /\ cmKind' = kind
  /\ cmStart' = from
  /\ cmAt' = from
  /\ cmPc' = "pending"
  /\ UNCHANGED <<cmEdits, cmToast>>

\* the user types a character outside the placeholder while the work runs
CmType(at) ==
  /\ cmPc = "pending"
  /\ cmEdits < MaxPasteEdits
  /\ at <= cmAt \/ at >= cmAt + Len(CmPlaceholder(cmKind))
  /\ cmDoc' = Splice(cmDoc, at, at, <<TypedChar>>)
  /\ cmAt' = IF at <= cmAt THEN cmAt + 1 ELSE cmAt
  /\ cmEdits' = cmEdits + 1
  /\ UNCHANGED <<cmPc, cmKind, cmStart, cmToast>>

\* the user deletes the character after offset at, outside the placeholder
CmDelete(at) ==
  /\ cmPc = "pending"
  /\ cmEdits < MaxPasteEdits
  /\ at < Len(cmDoc)
  /\ at < cmAt \/ at >= cmAt + Len(CmPlaceholder(cmKind))
  /\ cmDoc' = Splice(cmDoc, at, at + 1, <<>>)
  /\ cmAt' = IF at < cmAt THEN cmAt - 1 ELSE cmAt
  /\ cmEdits' = cmEdits + 1
  /\ UNCHANGED <<cmPc, cmKind, cmStart, cmToast>>

\* the catch block: remove the placeholder, then raise the notification; a
\* dispatch that throws ends the block before toast.error
CmCatch ==
  LET to == cmStart + Len(CmPlaceholder(cmKind)) IN
  /\ cmPc' = "failed"
  /\ IF CmInRange(cmDoc, cmStart, to)
     THEN cmDoc' = Splice(cmDoc, cmStart, to, <<>>) /\ cmToast' = TRUE
     ELSE UNCHANGED <<cmDoc, cmToast>>

\* the work succeeds: the placeholder range is replaced by the result; a
\* dispatch that throws is caught by the catch block
CmResolve(result) ==
  LET to == cmStart + Len(CmPlaceholder(cmKind)) IN
  /\ cmPc = "pending"
  /\ IF CmInRange(cmDoc, cmStart, to)
     THEN cmDoc' = Splice(cmDoc, cmStart, to, result)
          /\ cmPc' = "done" /\ UNCHANGED cmToast
     ELSE CmCatch
  /\ UNCHANGED <<cmKind, cmStart, cmAt, cmEdits>>

\* the work fails
CmReject ==
  /\ cmPc = "pending"
  /\ CmCatch
  /\ UNCHANGED <<cmKind, cmStart, cmAt, cmEdits>>

\* the position where the content of paragraph i of the tree starts
RECURSIVE PmStart(_, _)
PmStart(d, i) == IF i = 1 THEN 1 ELSE PmStart(d, i - 1) + Len(d[i - 1]) + 2

\* the token at a position: the opening or closing token of a paragraph or
\* one of its characters (n is its index in the text)
PmToken(d, pos) ==
  LET i == CHOOSE j \in 1..Len(d) : PmStart(d, j) - 1 <= pos /\ pos <= PmStart(d, j) + Len(d[j])
      n == pos - PmStart(d, i) + 1
  IN [par |-> i, n |-> n,
      kind |-> IF n = 0 THEN "open" ELSE IF n = Len(d[i]) + 1 THEN "close" ELSE "char"]

Drop(seq, n) == SubSeq(seq, n + 1, Len(seq))
NonEmpty(text) == IF text = <<>> THEN <<>> ELSE <<text>>

\* tr.replaceWith(pos, pos, node) with the cursor in paragraph i after k
\* characters: a paragraph cannot hold a paragraph, so the step closes the
\* paragraph, places the node after it and reopens a paragraph for the text
\* behind the cursor when there is some
PmInsertBlock(d, i, k, text) ==
  SubSeq(d, 1, i - 1) \o <<SubSeq(d[i], 1, k), text>>
    \o NonEmpty(Drop(d[i], k)) \o Drop(d, i)

\* tr.replaceWith(pos, pos + 1, blocks): the one token at pos gives way to
\* the blocks, which are placed between paragraphs
PmReplaceWith(d, pos, blocks) ==
  LET tok == PmToken(d, pos)
      i == tok.par
  IN CASE tok.kind = "char" ->
            SubSeq(d, 1, i - 1) \o <<SubSeq(d[i], 1, tok.n - 1)>> \o blocks
              \o NonEmpty(Drop(d[i], tok.n)) \o Drop(d, i)
       [] tok.kind = "close" -> SubSeq(d, 1, i) \o blocks \o Drop(d, i)
       [] tok.kind = "open" ->
            SubSeq(d, 1, i - 1) \o blocks \o NonEmpty(d[i]) \o Drop(d, i)

\* tr.delete(pos, pos + 1): a character is removed; the token that closes or
\* opens a paragraph with text is put back by the step; an empty paragraph
\* goes when it is not the only node
PmDelete(d, pos) ==
  LET tok == PmToken(d, pos)
      i == tok.par
  IN CASE tok.kind = "char" -> [d EXCEPT ![i] = Splice(d[i], tok.n - 1, tok.n, <<>>)]
       [] tok.kind = "close" -> d
       [] tok.kind = "open" ->
            IF d[i] = <<>> /\ Len(d) > 1 THEN SubSeq(d, 1, i - 1) \o Drop(d, i) ELSE d

\* the paragraphs of the document a text is converted to
RECURSIVE BlockTexts(_)
BlockTexts(nodes) ==
  IF nodes = <<>> THEN <<>>
  ELSE <<PlainText(Head(nodes).inl)>> \o BlockTexts(Tail(nodes))

\* handlePaste with HTML on the clipboard, the cursor in paragraph i after k
\* characters
PmPaste(i, k) ==
  /\ pmPc = "idle"
  /\ pmDoc' = PmInsertBlock(pmDoc, i, k, Processing)
  /\ pmFrom' = PmStart(pmDoc, i) + k
  /\ pmAt' = i + 1
  /\ pmPc' = "pending"
  /\ UNCHANGED <<pmEdits, pmToast>>

\* the user types a character into another paragraph while the work runs
PmType(i, k) ==
  /\ pmPc = "pending"
  /\ pmEdits < MaxPasteEdits
  /\ i # pmAt
  /\ pmDoc' = [pmDoc EXCEPT ![i] = Splice(pmDoc[i], k, k, <<TypedChar>>)]
  /\ pmEdits' = pmEdits + 1
  /\ UNCHANGED <<pmPc, pmFrom, pmAt, pmToast>>

\* the conversion succeeds
PmResolve(result) ==
  /\ pmPc = "pending"
  /\ pmDoc' = PmReplaceWith(pmDoc, pmFrom, BlockTexts(ParseDoc(result)))
  /\ pmPc' = "done"
  /\ UNCHANGED <<pmFrom, pmAt, pmEdits, pmToast>>

\* the conversion fails
PmReject ==
  /\ pmPc = "pending"
  /\ pmDoc' = PmDelete(pmDoc, pmFrom)
  /\ pmToast' = TRUE
  /\ pmPc' = "failed"
  /\ UNCHANGED <<pmFrom, pmAt, pmEdits>>

CmPasteStep ==
  /\ \E kind \in PasteKinds : \E from \in 0..Len(cmDoc) : \E to \in from..Len(cmDoc) :
       CmPaste(kind, from, to)
  /\ UNCHANGED <<ctlVars, obsVars, rtVars, pmVars, auxVars>>

CmTypeStep ==
  /\ \E at \in 0..Len(cmDoc) : CmType(at)
  /\ UNCHANGED <<ctlVars, obsVars, rtVars, pmVars, auxVars>>

CmDeleteStep ==
  /\ \E at \in 0..Len(cmDoc) : CmDelete(at)
  /\ UNCHANGED <<ctlVars, obsVars, rtVars, pmVars, auxVars>>

CmResolveStep ==
  /\ \E result \in PasteResults : CmResolve(result)
  /\ UNCHANGED <<ctlVars, obsVars, rtVars, pmVars, auxVars>>

CmRejectStep ==
  /\ CmReject
  /\ UNCHANGED <<ctlVars, obsVars, rtVars, pmVars, auxVars>>

PmPasteStep ==
  /\ \E i \in 1..Len(pmDoc) : \E k \in 0..Len(pmDoc[i]) : PmPaste(i, k)
  /\ UNCHANGED <<ctlVars, obsVars, rtVars, cmVars, auxVars>>

PmTypeStep ==
  /\ \E i \in 1..Len(pmDoc) : \E k \in 0..Len(pmDoc[i]) : PmType(i, k)
  /\ UNCHANGED <<ctlVars, obsVars, rtVars, cmVars, auxVars>>

PmResolveStep ==
  /\ \E result \in PasteResults : PmResolve(result)
  /\ UNCHANGED <<ctlVars, obsVars, rtVars, cmVars, auxVars>>

PmRejectStep ==
  /\ PmReject
  /\ UNCHANGED <<ctlVars, obsVars, rtVars, cmVars, auxVars>>

\* one of the two surfaces is open, holding a short document
InitPaste ==
  /\ content = <<>>
  /\ InitCtl
  /\ InitRTIdle
  /\ InitAuxOff
  /\ cmKind = "none" /\ cmStart = 0 /\ cmAt = 0 /\ cmEdits = 0 /\ cmToast = FALSE
  /\ pmFrom = 0 /\ pmAt = 0 /\ pmEdits = 0 /\ pmToast = FALSE
  /\ \/ cmPc = "idle" /\ cmDoc \in PasteTexts /\ pmPc = "off" /\ pmDoc = <<<<>>>>
     \/ /\ pmPc = "idle" /\ cmPc = "off" /\ cmDoc = <<>>
        /\ pmDoc \in {<<t>> : t \in PasteTexts} \cup {<<<<"a">>, t>> : t \in PasteTexts}

NextPaste ==
  \/ CmPasteStep
  \/ CmTypeStep
  \/ CmDeleteStep
  \/ CmResolveStep
  \/ CmRejectStep
  \/ PmPasteStep
  \/ PmTypeStep
  \/ PmResolveStep
  \/ PmRejectStep

SpecPaste == InitPaste /\ [][NextPaste]_vars

(***************************************************************************)
(* Paste or drop of an image or a video in the structured editor.  The     *)
(* handler starts an async function that runs up to its first await within *)
(* the event; the document is touched only after the upload succeeded.     *)
(***************************************************************************)
MaxAttempts == 2

MediaKinds == {"image", "video"}
ImageItem == "img"
MediaTexts == {<<t>> : t \in PasteTexts} \cup {<<<<"a">>, t>> : t \in PasteTexts}
exceptMedia == <<ctlVars, obsVars, rtVars, pasteVars, saveVars, keyVars, diagramVars>>

\* the async function up to its first await: without a provider toast.error
\* and return; else toast.loading and the call of uploadImage or uploadVideo
MediaStart(kind, via, pos) ==
  /\ upPc \in {"idle", "failed"}
  /\ upErrors < MaxAttempts
  /\ upKind' = kind
  /\ upVia' = via
  /\ upPos' = pos
  /\ upBefore' = upDoc
  /\ upEdits' = 0
  /\ IF ~upProvider
     THEN upErrors' = upErrors + 1 /\ upPc' = "failed" /\ upCalls' = 0
     ELSE upCalls' = 1 /\ upPc' = "uploading" /\ UNCHANGED upErrors
  /\ UNCHANGED <<upDoc, upProvider, upSel>>

\* handlePaste with an image or video item on the clipboard
MediaPaste(kind) == MediaStart(kind, "paste", upSel)

\* handleDrop of an image or video file at coords.pos
MediaDrop(kind, pos) == MediaStart(kind, "drop", pos)

\* the user types a character at the cursor while the upload runs
MediaType ==
  /\ upPc = "uploading"
  /\ upEdits < MaxPasteEdits
  /\ upDoc' = [upDoc EXCEPT ![upSel[1]] = Splice(upDoc[upSel[1]], upSel[2], upSel[2], <<TypedChar>>)]
  /\ upSel' = <<upSel[1], upSel[2] + 1>>
  /\ upEdits' = upEdits + 1
  /\ UNCHANGED <<upPc, upBefore, upCalls, upErrors, upKind, upVia, upProvider, upPos>>

\* a catch block that calls the upload once more before it gives up
UploadReject_Retry ==
  /\ upPc = "uploading"
  /\ upCalls' = upCalls + 1
  /\ upErrors' = upErrors + 1
  /\ upPc' = "failed"
  /\ UNCHANGED <<upDoc, upBefore, upKind, upVia, upProvider, upSel, upPos, upEdits>>

\* the upload throws: the catch block raises toast.error
UploadReject ==
  /\ upPc = "uploading"
  /\ upErrors' = upErrors + 1
  /\ upPc' = "failed"
  /\ UNCHANGED <<upDoc, upBefore, upCalls, upKind, upVia, upProvider, upSel, upPos, upEdits>>

\* the upload returns a url: toast.success, then tr.insert of an image node
\* (inline) or of an empty paragraph at the selection (paste) or at
\* coords.pos (drop)
UploadResolve ==
  LET at == IF upVia = "paste" THEN upSel ELSE upPos
      i == at[1]
      k == at[2]
  IN /\ upPc = "uploading"
     /\ upDoc' = IF upKind = "image"
                 THEN [upDoc EXCEPT ![i] = Splice(upDoc[i], k, k, <<ImageItem>>)]
                 ELSE PmInsertBlock(upDoc, i, k, <<>>)
     /\ upPc' = "done"
     /\ UNCHANGED <<upBefore, upCalls, upErrors, upKind, upVia, upProvider, upSel, upPos,
                    upEdits>>

MediaPasteStep ==
  /\ \E kind \in MediaKinds : MediaPaste(kind)
  /\ UNCHANGED exceptMedia

MediaDropStep ==
  /\ \E kind \in MediaKinds : \E i \in 1..Len(upDoc) : \E k \in 0..Len(upDoc[i]) :
       MediaDrop(kind, <<i, k>>)
  /\ UNCHANGED exceptMedia

MediaTypeStep ==
  /\ MediaType
  /\ UNCHANGED exceptMedia

UploadRejectStep ==
  /\ UploadReject
  /\ UNCHANGED exceptMedia

UploadResolveStep ==
  /\ UploadResolve
  /\ UNCHANGED exceptMedia

\* the structured editor is open on a short document, with or without a
\* configured provider, the cursor somewhere in it
InitMedia ==
  /\ content = <<>>
  /\ InitCtl
  /\ InitRTIdle
  /\ InitPasteOff
  /\ InitSaveOff
  /\ InitKeyOff
  /\ InitDiagramOff
  /\ upPc = "idle"
  /\ upDoc \in MediaTexts
  /\ upBefore = upDoc
  /\ upCalls = 0 /\ upErrors = 0 /\ upEdits = 0
  /\ upKind = "none" /\ upVia = "none"
  /\ upProvider \in BOOLEAN
  /\ upSel \in {<<i, k>> : i \in 1..Len(upDoc), k \in 0..MaxPasteText} /\ upSel[2] <= Len(upDoc[upSel[1]])
  /\ upPos = <<1, 0>>

NextMedia ==
  \/ MediaPasteStep
  \/ MediaDropStep
  \/ MediaTypeStep
  \/ UploadRejectStep
  \/ UploadResolveStep

SpecMedia == InitMedia /\ [][NextMedia]_vars

(***************************************************************************)
(* buildKeymap, Mod-Shift-C.  A selection is a text cursor in a paragraph  *)
(* or a node selection of a paragraph; the paragraph is a block of the     *)
(* document (item = 0) or the paragraph of item number item of the task    *)
(* list at block blk.  The steps of the insert branch are those of the     *)
(* editor library: the action admits the documents they may produce.       *)
(***************************************************************************)
MaxKeys == 2
MaxKeyBlocks == 2

exceptKey == <<ctlVars, obsVars, rtVars, pasteVars, saveVars, mediaVars, diagramVars>>

KeyItem(c) == TaskItem(c, <<Para(<<Txt(<<"a">>, {})>>)>>)
KeyBlocks ==
  {Para(<<>>), Para(<<Txt(<<"a">>, {})>>)}
    \cup {TaskList(<<KeyItem(c)>>) : c \in BOOLEAN}
    \cup {TaskList(<<KeyItem(c), KeyItem(FALSE)>>) : c \in BOOLEAN}
KeyDocs == UNION {[1..n -> KeyBlocks] : n \in 1..MaxKeyBlocks}

\* the selections a document admits
KeySels(d) ==
  {sel \in [kind : {"text", "node"}, blk : 1..Len(d), item : 0..2] :
     IF d[sel.blk].type = "task_list"
     THEN sel.item \in 1..Len(d[sel.blk].kids)
     ELSE sel.item = 0}

\* $from.parent.type.name: a text cursor sits in a textblock; the node
\* selection of a paragraph sits in the node that holds the paragraph
FromParent(sel) ==
  IF sel.kind = "text" THEN "paragraph"
  ELSE IF sel.item > 0 THEN "task_item" ELSE "doc"

\* setNodeMarkup(pos, null, {...attrs, checked: !checked}) on the task item
SetChecked(d, sel) ==
  [d EXCEPT ![sel.blk].kids[sel.item].checked = ~@]

\* schema.nodes.task_list.create() and task_item.createAndFill({checked: false})
EmptyTaskList == TaskList(<<>>)
NewTaskItem == TaskItem(FALSE, <<Para(<<>>)>>)
NewTaskList == TaskList(<<NewTaskItem>>)

\* replaceSelectionWith(taskList), then insert(selection.from - 1, taskItem):
\* the item lands in the new list, or the step wraps it in a list of its own
\* and the empty list stays; an empty or node-selected paragraph gives way,
\* a paragraph with text is kept.  In a task item the list is nested behind
\* the paragraph, or the item is placed as the next item of the list.
InsertTaskList(d, sel) ==
  LET i == sel.blk
      keep == IF sel.item = 0 /\ (sel.kind = "node" \/ d[i].inl = <<>>) THEN <<>> ELSE <<d[i]>>
  IN IF sel.item = 0
     THEN {SubSeq(d, 1, i - 1) \o keep \o new \o Drop(d, i) :
             new \in {<<NewTaskList>>, <<NewTaskList, EmptyTaskList>>}}
     ELSE {[d EXCEPT ![i].kids[sel.item].kids = Append(@, NewTaskList)],
           [d EXCEPT ![i].kids = SubSeq(@, 1, sel.item) \o <<NewTaskItem>> \o Drop(@, sel.item)]}

\* keys["Mod-Shift-C"]
ModShiftC(sel) ==
  /\ kmKeys < MaxKeys
  /\ sel = kmSel
  /\ IF FromParent(sel) = "task_item"
     THEN kmDoc' = SetChecked(kmDoc, sel) /\ UNCHANGED kmSel
     ELSE /\ kmDoc' \in InsertTaskList(kmDoc, sel)
          /\ kmSel' \in KeySels(kmDoc')
  /\ kmKeys' = kmKeys + 1

ModShiftCStep ==
  /\ \E sel \in KeySels(kmDoc) : ModShiftC(sel)
  /\ UNCHANGED exceptKey

\* the user moves the selection
KeySelectStep ==
  /\ kmKeys < MaxKeys
  /\ \E sel \in KeySels(kmDoc) : sel # kmSel /\ kmSel' = sel
  /\ UNCHANGED <<kmDoc, kmKeys>>
  /\ UNCHANGED exceptKey

InitKey ==
  /\ content = <<>>
  /\ InitCtl
  /\ InitRTIdle
  /\ InitPasteOff
  /\ InitSaveOff
  /\ InitMediaOff
  /\ InitDiagramOff
  /\ kmDoc \in KeyDocs
  /\ kmSel \in KeySels(kmDoc)
  /\ kmKeys = 0

NextKey ==
  \/ ModShiftCStep
  \/ KeySelectStep

SpecKey == InitKey /\ [][NextKey]_vars

(***************************************************************************)
(* renderMermaidDiagrams: a loop over the code elements of language        *)
(* mermaid; each is rendered behind an await.  The function writes to the  *)
(* DOM only; what the document holds for a block whose DOM was replaced by *)
(* a diagram is left open between its text and no text.                    *)
(***************************************************************************)
MaxRuns == 2
MaxDiagramBlocks == 2

exceptDiagram == <<ctlVars, obsVars, rtVars, pasteVars, saveVars, mediaVars, keyVars>>

DiagramBlocks ==
  { Para(<<Txt(<<"a">>, {})>>),
    CodeBlock(Mermaid, <<"a">>),
    CodeBlock(Mermaid, <<"a", NL, "b">>),
    CodeBlock(Mermaid, <<" ">>),
    CodeBlock(Mermaid, <<>>),
    CodeBlock(<<"j", "s">>, <<"a">>) }
DiagramDocs == UNION {[1..n -> DiagramBlocks] : n \in 1..MaxDiagramBlocks}

PlainDom == [dataCode |-> <<>>, comment |-> <<>>, rendered |-> FALSE]

\* the blocks the loop still renders: a code element of language mermaid
\* with text whose pre does not carry the class mermaid-diagram
Renderable(i) ==
  /\ mmDoc[i].type = "code_block"
  /\ mmDoc[i].lang = Mermaid
  /\ PlainText(mmDoc[i].inl) # <<>>
  /\ ~mmDom[i].rendered

\* the loop reaches its next block: setAttribute('data-original-code', code),
\* then the await of mermaid.render
RenderBegin(i) ==
  /\ mmPc = "idle"
  /\ mmRuns > 0
  /\ i > mmCur
  /\ Renderable(i)
  /\ \A j \in (mmCur + 1)..(i - 1) : ~Renderable(j)
  /\ mmDom' = [mmDom EXCEPT ![i].dataCode = PlainText(mmDoc[i].inl)]
  /\ mmCur' = i
  /\ mmPc' = "rendering"
  /\ UNCHANGED <<mmDoc, mmOrig, mmRuns, mmFailed, mmOut>>

\* mermaid.render returns: pre.innerHTML becomes the comment and the svg and
\* the pre gets the class
RenderResolve ==
  /\ mmPc = "rendering"
  /\ mmDom' = [mmDom EXCEPT ![mmCur].comment = mmDom[mmCur].dataCode,
                            ![mmCur].rendered = TRUE]
  /\ \E text \in {mmDoc[mmCur], CodeBlock(Mermaid, <<>>)} :
       mmDoc' = [mmDoc EXCEPT ![mmCur] = text]
  /\ mmFailed' = mmFailed \ {mmCur}
  /\ mmPc' = "idle"
  /\ UNCHANGED <<mmOrig, mmCur, mmRuns, mmOut>>

\* a catch block that shows the error in place of the code
RenderReject_Replace ==
  /\ mmPc = "rendering"
  /\ mmDom' = [mmDom EXCEPT ![mmCur].rendered = TRUE]
  /\ mmDoc' = [mmDoc EXCEPT ![mmCur] = CodeBlock(Mermaid, <<>>)]
  /\ mmFailed' = mmFailed \cup {mmCur}
  /\ mmPc' = "idle"
  /\ UNCHANGED <<mmOrig, mmCur, mmRuns, mmOut>>

\* mermaid.render throws: console.error and classList.remove
RenderReject ==
  /\ mmPc = "rendering"
  /\ mmDom' = [mmDom EXCEPT ![mmCur].rendered = FALSE]
  /\ mmFailed' = mmFailed \cup {mmCur}
  /\ mmPc' = "idle"
  /\ UNCHANGED <<mmDoc, mmOrig, mmCur, mmRuns, mmOut>>

\* renderMermaidDiagrams is called, by the timer of dispatchTransaction or
\* by the MutationObserver, when no call is in its loop
RenderStart ==
  /\ mmPc = "idle"
  /\ mmRuns < MaxRuns
  /\ mmRuns = 0 \/ \A j \in (mmCur + 1)..Len(mmDoc) : ~Renderable(j)
  /\ mmCur' = 0
  /\ mmRuns' = mmRuns + 1
  /\ UNCHANGED <<mmPc, mmDoc, mmOrig, mmDom, mmFailed, mmOut>>

\* prosemirrorToMarkdown(view), at any time
DiagramSerialize ==
  /\ mmPc \in {"idle", "rendering"}
  /\ mmOut' = <<prosemirrorToMarkdown([doc |-> mmDoc, dom |-> mmDom])>>
  /\ mmOut' # mmOut
  /\ UNCHANGED <<mmPc, mmDoc, mmOrig, mmDom, mmCur, mmRuns, mmFailed>>

RenderBeginStep ==
  /\ \E i \in 1..Len(mmDoc) : RenderBegin(i)
  /\ UNCHANGED exceptDiagram

RenderResolveStep ==
  /\ RenderResolve
  /\ UNCHANGED exceptDiagram

RenderRejectStep ==
  /\ RenderReject
  /\ UNCHANGED exceptDiagram

RenderStartStep ==
  /\ RenderStart
  /\ UNCHANGED exceptDiagram

DiagramSerializeStep ==
  /\ DiagramSerialize
  /\ UNCHANGED exceptDiagram

InitDiagram ==
  /\ content = <<>>
  /\ InitCtl
  /\ InitRTIdle
  /\ InitPasteOff
  /\ InitSaveOff
  /\ InitMediaOff
  /\ InitKeyOff
  /\ mmPc = "idle"
  /\ mmDoc \in DiagramDocs
  /\ mmOrig = mmDoc
  /\ mmDom = [i \in 1..Len(mmDoc) |-> PlainDom]
  /\ mmCur = 0
  /\ mmRuns = 0
  /\ mmFailed = {}
  /\ mmOut = <<>>

NextDiagram ==
  \/ RenderStartStep
  \/ RenderBeginStep
  \/ RenderResolveStep
  \/ RenderRejectStep
  \/ DiagramSerializeStep

SpecDiagram == InitDiagram /\ [][NextDiagram]_vars

(***************************************************************************)
(* A rich-HTML paste in the structured editor together with the debounce:  *)
(* handlePaste dispatches its transactions through view.dispatch, so each  *)
(* of them runs dispatchTransaction and arms the timeout that serializes   *)
(* the document for onChange.                                              *)
(***************************************************************************)
DebounceTexts == {<<"a", NL>>, <<"b", NL>>, <<"a", "b", NL>>}

\* the document whose paragraphs hold the given texts
DocOf(texts) ==
  [i \in 1..Len(texts) |-> Para(IF texts[i] = <<>> THEN <<>> ELSE <<Txt(texts[i], {})>>)]

restObs == <<ev, stepCount, burstN, burstClosed, burstEmits, burstDoc, deferred, unsaved>>
exceptDebounce == <<rtVars, cmVars, auxVars>>

\* view.dispatch(tr) of a transaction with a step
ViewDispatch ==
  /\ DispatchTransaction([doc |-> DocOf(pmDoc'), docChanged |-> TRUE], isExternalUpdateRef)
  /\ UNCHANGED <<content, mounted, lastMarkdownRef, effectPending, emitCount, replCount>>

PasteMountStep ==
  /\ Mount
  /\ pmPc' = "idle"
  /\ pmDoc' = BlockTexts(doc')
  /\ UNCHANGED <<pmFrom, pmAt, pmEdits, pmToast, emitCount, replCount, restObs,
                 exceptDebounce>>

PasteEffectStep ==
  /\ RunEffect
  /\ pmDoc' = BlockTexts(doc')
  /\ UNCHANGED <<pmPc, pmFrom, pmAt, pmEdits, pmToast, restObs, exceptDebounce>>

PasteHtmlStep ==
  /\ mounted
  /\ EffectsFlushed
  /\ \E i \in 1..Len(pmDoc) : \E k \in 0..Len(pmDoc[i]) : PmPaste(i, k)
  /\ ViewDispatch
  /\ UNCHANGED <<restObs, exceptDebounce>>

PasteTypeStep ==
  /\ mounted
  /\ EffectsFlushed
  /\ \E i \in 1..Len(pmDoc) : \E k \in 0..Len(pmDoc[i]) : PmType(i, k)
  /\ ViewDispatch
  /\ UNCHANGED <<restObs, exceptDebounce>>

PasteResolveStep ==
  /\ mounted
  /\ EffectsFlushed
  /\ \E result \in PasteResults : PmResolve(result)
  /\ ViewDispatch
  /\ UNCHANGED <<restObs, exceptDebounce>>

PasteRejectStep ==
  /\ mounted
  /\ EffectsFlushed
  /\ PmReject
  /\ ViewDispatch
  /\ UNCHANGED <<restObs, exceptDebounce>>

PasteFireStep ==
  /\ EffectsFlushed
  /\ \E id \in timers : TimerFire(id)
  /\ UNCHANGED <<pmVars, restObs, exceptDebounce>>

InitDebounce ==
  /\ content \in DebounceTexts
  /\ InitCtl
  /\ InitRTIdle
  /\ InitPasteOff
  /\ InitAuxOff

NextDebounce ==
  \/ PasteMountStep
  \/ PasteEffectStep
  \/ PasteHtmlStep
  \/ PasteTypeStep
  \/ PasteResolveStep
  \/ PasteRejectStep
  \/ PasteFireStep

SpecDebounce == InitDebounce /\ [][NextDebounce]_vars

(***************************************************************************)
(* useAutoSave: the value is kept in state; an effect that depends on the  *)
(* value arms a timeout that writes it to localStorage, and its cleanup    *)
(* clears that timeout before the effect runs again.                       *)
(***************************************************************************)
MaxChanges == 3
NumSaveTimerIds == 2

SaveValues == {<<"a">>, <<"b">>, <<"c">>}
InitialValue == <<"a">>
SaveTimerIds == 1..NumSaveTimerIds
ArmedIds == {t.id : t \in asTimers}

\* setValue with a value that differs from the state: a render is scheduled
\* and the effect is due, its dependency having changed
SetValue(v) ==
  /\ ~asEffectDue
  /\ asChanges < MaxChanges
  /\ v # asValue
  /\ asValue' = v
  /\ asEffectDue' = TRUE
  /\ asChanges' = asChanges + 1
  /\ UNCHANGED <<asStored, asTimers, asHandler>>

\* the effect without its cleanup: the earlier timeout stays armed
SaveEffect_NoCleanup ==
  /\ asEffectDue
  /\ \E id \in SaveTimerIds \ ArmedIds :
       /\ \A j \in SaveTimerIds \ ArmedIds : id <= j
       /\ asTimers' = asTimers \cup {[id |-> id, val |-> asValue]}
       /\ asHandler' = id
  /\ asEffectDue' = FALSE
  /\ UNCHANGED <<asValue, asStored, asChanges>>

\* the cleanup of the previous run, then the effect: clearTimeout(handler)
\* and a new timeout that captures the value of this render
SaveEffect ==
  /\ asEffectDue
  /\ \E id \in SaveTimerIds \ (ArmedIds \ {asHandler}) :
       /\ \A j \in SaveTimerIds \ (ArmedIds \ {asHandler}) : id <= j
       /\ asTimers' = {t \in asTimers : t.id # asHandler} \cup {[id |-> id, val |-> asValue]}
       /\ asHandler' = id
  /\ asEffectDue' = FALSE
  /\ UNCHANGED <<asValue, asStored, asChanges>>

\* the callback of an armed timeout: localStorage.setItem(key, value) with
\* the value it captured; setLastSaved changes no dependency of the effect
SaveFire(t) ==
  /\ ~asEffectDue
  /\ t \in asTimers
  /\ asStored' = <<t.val>>
  /\ asTimers' = asTimers \ {t}
  /\ UNCHANGED <<asValue, asHandler, asEffectDue, asChanges>>

exceptSave == <<ctlVars, obsVars, rtVars, pasteVars, mediaVars, keyVars, diagramVars>>

SetValueStep ==
  /\ \E v \in SaveValues : SetValue(v)
  /\ UNCHANGED exceptSave

SaveEffectStep ==
  /\ SaveEffect
  /\ UNCHANGED exceptSave

SaveFireStep ==
  /\ \E t \in asTimers : SaveFire(t)
  /\ UNCHANGED exceptSave

\* the first render: the stored value when there is one, else the initial
\* value; the effect of the mount is due
InitSave ==
  /\ content = <<>>
  /\ InitCtl
  /\ InitRTIdle
  /\ InitPasteOff
  /\ InitMediaOff
  /\ InitKeyOff
  /\ InitDiagramOff
  /\ asStored \in {<<>>} \cup {<<v>> : v \in SaveValues}
  /\ asValue = IF asStored # <<>> THEN asStored[1] ELSE InitialValue
  /\ asTimers = {}
  /\ asHandler = 0
  /\ asEffectDue = TRUE
  /\ asChanges = 0

NextSave ==
  \/ SetValueStep
  \/ SaveEffectStep
  \/ SaveFireStep

SpecSave == InitSave /\ [][NextSave]_vars

\* an armed timeout fires in the end, and a due effect runs
SpecSaveFair ==
  /\ SpecSave
  /\ WF_vars(SaveEffectStep)
  /\ WF_vars(SaveFireStep)

(***************************************************************************)
(* Properties of the reconciliation controller.                            *)
(***************************************************************************)
\* C1 (as stated): when the timer of a burst of user transactions fires,
\* exactly one onChange emission has resulted from the burst, and its value is
\* the serialization of the tree after the last transaction of the burst.
C1_ExactlyOneEmission ==
  [][(ev' = "fire" /\ burstN >= 1 /\ ~burstClosed /\ burstClosed') =>
       (burstEmits' = 1 /\ content' = Serialize(burstDoc))]_vars

\* C1 (amended): a burst leads to at most one emission; when the timer of the
\* burst fires there is one exactly when the serialization of the tree after
\* the last transaction differs from the baseline, and its value is that
\* serialization.
C1_Coalesced ==
  [][/\ burstEmits <= 1
     /\ (ev' = "fire" /\ burstN >= 1 /\ ~burstClosed /\ burstClosed') =>
          /\ burstEmits' = IF Serialize(burstDoc) # lastMarkdownRef THEN 1 ELSE 0
          /\ burstEmits' = 1 => content' = Serialize(burstDoc)]_vars

\* a burst of two transactions has ended in one emission
C1_Witness == burstN >= 2 /\ burstClosed /\ burstEmits = 1

\* C2: when the external-content effect meets a content equal to the
\* serialization of the tree, it replaces nothing, leaves the external-update
\* flag unset, arms no timer and emits nothing.
C2_EchoSuppressed ==
  [][(ev' = "effect" /\ content = Serialize(doc)) =>
       /\ doc' = doc
       /\ replCount' = replCount
       /\ ~isExternalUpdateRef'
       /\ emitCount' = emitCount
       /\ timers' = timers
       /\ lastMarkdownRef' = lastMarkdownRef]_vars

\* an external value equal to the serialization arrived at an idle editor
C2_Witness ==
  /\ ev = "effect" /\ mounted
  /\ updateTimeoutRef = 0 /\ ~isUpdatingRef
  /\ content = Serialize(doc) /\ content # lastMarkdownRef /\ replCount = 0

\* C3: the wholesale replace arms no timer, emits nothing and leaves the
\* external-update flag consumed; timers are armed by user transactions only
\* and emissions come from timer callbacks only; every user transaction arms
\* the timer.
C3_ReplaceIsSilent ==
  [][/\ replCount' = replCount + 1 =>
          /\ timers' = timers
          /\ updateTimeoutRef' = updateTimeoutRef
          /\ emitCount' = emitCount
          /\ ~isExternalUpdateRef'
     /\ ~isExternalUpdateRef
     /\ ~(timers' \subseteq timers) => ev' = "edit"
     /\ emitCount' = emitCount + 1 => ev' = "fire"
     /\ ev' = "edit" => (updateTimeoutRef' \in timers' /\ isUpdatingRef')]_vars

\* a user transaction after an external value was applied: only an applied
\* external value makes the baseline a text without the final newline
C3_Witness ==
  ev = "edit" /\ lastMarkdownRef = <<"a">> /\ updateTimeoutRef \in timers

\* C4: while a timer is pending no step replaces the document and only user
\* transactions change the tree, so the tree the timer callback serializes is
\* the tree after the last user transaction.
C4_NoReplaceWhilePending ==
  [][/\ timers # {} => (replCount' # replCount + 1 /\ (ev' # "edit" => doc' = doc))
     /\ ev' = "fire" => doc = burstDoc]_vars

\* an external value that differs arrived while the timer was pending
C4_Witness == ev = "effect" /\ timers # {} /\ deferred

\* C5 (as stated): with no timer pending and no user transaction since the last
\* timer callback, an external value that differs from the serialization of the
\* tree is applied by wholesale replace.
C5_IdleApplies ==
  [][(ev' = "effect" /\ timers = {} /\ ~isUpdatingRef /\ content # Serialize(doc)) =>
       (replCount' = replCount + 1 /\ doc' = ParseDoc(content))]_vars

\* C6 (as stated): once the timer has fired and nothing is due, an external
\* value that was deferred, is still current and still differs from the
\* serialization has been applied.
C6_DeferredApplied ==
  (mounted /\ deferred /\ timers = {} /\ ~effectPending /\ content # Serialize(doc))
     => doc = ParseDoc(content)

\* C7: the timer callback calls onChange exactly when the serialization differs
\* from the baseline; then the baseline and the external value become that
\* serialization; otherwise both stay.
C7_EmitIffChanged ==
  [][ev' = "fire" =>
       /\ emitCount' \in {emitCount, emitCount + 1}
       /\ emitCount' = emitCount + 1 <=> Serialize(doc) # lastMarkdownRef
       /\ Serialize(doc) # lastMarkdownRef =>
            /\ lastMarkdownRef' = Serialize(doc)
            /\ content' = Serialize(doc)
       /\ Serialize(doc) = lastMarkdownRef =>
            /\ lastMarkdownRef' = lastMarkdownRef
            /\ content' = content]_vars

\* a timer callback after a user transaction that emitted nothing
C7_Witness == ev = "fire" /\ emitCount = 0 /\ timers = {}

\* C8: after an outside event (a user transaction, a change of the external
\* value) there is at most one emission and one replacement, and at most three
\* timer callbacks and effect runs, after which no timer is pending and no
\* effect is due.
C8_NoLoop ==
  /\ emitCount <= 1
  /\ replCount <= 1
  /\ stepCount <= 3
  /\ stepCount = 3 => (timers = {} /\ ~effectPending)

\* an external text that the round trip changes was applied and all is quiet
C8_Witness ==
  /\ ev = "effect" /\ replCount = 1 /\ timers = {} /\ ~effectPending
  /\ mounted /\ content # Serialize(doc)

\* C9 (as stated): no local edit is lost; in particular the editor is never
\* unmounted while the external value lacks a user edit.
C9_NoEditLost == ~mounted => ~unsaved

\* C10 (as stated): parsing the serializer's output yields the original tree.
C10_RoundTrip == rtPc = "parsed" => rtBack = rtDoc

\* C11 (as stated): serializing what the parser makes of a serialization gives
\* that serialization again.
C11_Idempotent == rtPc = "reserialized" => rtMd2 = rtMd

\* C12 (as stated): a pipe table with a header row, a separator row and k data
\* rows parses into one table node with exactly k+1 rows.
C12_SeparatorConsumed ==
  (rtPc = "parsed" /\ rtDoc[1].type = "table") =>
     /\ Len(rtBack) = 1
     /\ rtBack[1].type = "table"
     /\ Len(rtBack[1].kids) = Len(rtDoc[1].kids)

\* the pipes of a line that no backslash precedes
UnescapedPipes(line) ==
  Cardinality({i \in 1..Len(line) : line[i] = "|" /\ (i = 1 \/ line[i - 1] # "\\")})

\* C13 (as stated): a table is serialized as its header row, a separator row
\* with one :--- cell for each header column, and the remaining rows in order;
\* a pipe inside a cell text is escaped, so every row shows one unescaped pipe
\* more than the table has columns.
C13_TableSerialized ==
  (rtPc = "serialized" /\ Len(rtDoc) = 1 /\ rtDoc[1].type = "table") =>
     LET lines == Split(rtMd, NL)
         rows == rtDoc[1].kids
         cols == Len(rows[1].kids)
     IN /\ Len(lines) >= Len(rows) + 1
        /\ [c \in 1..cols |-> Trim(TableCells(lines[2])[c])]
             = [c \in 1..cols |-> <<":", "-", "-", "-">>]
        /\ \A r \in 1..(Len(rows) + 1) : UnescapedPipes(lines[r]) = cols + 1

\* the text of the run is a run of task lines marked x or blank
LowerTaskRun ==
  /\ Len(rtDoc) = 1
  /\ rtDoc[1].type = "task_list"
  /\ \A i \in 1..Len(rtMd) : rtMd[i] # "X"

\* C14: a run of task lines marked x or blank parses into one task_list with
\* the items in line order, checked exactly for the lines marked x, and
\* serializing that list gives the same lines in the same order.
C14_TaskListFidelity ==
  LowerTaskRun =>
     /\ rtPc \in {"parsed", "reserialized"} => rtBack = rtDoc
     /\ rtPc = "reserialized" => rtMd2 = rtMd \o <<NL, NL>>

\* the lines - [x] a and - [ ] b were parsed and serialized again
C14_Witness ==
  /\ rtPc = "reserialized"
  /\ LowerTaskRun
  /\ Len(rtBack[1].kids) = 2
  /\ rtBack[1].kids[1].checked
  /\ ~rtBack[1].kids[2].checked

\* C15 (as stated): a task line marked with an upper-case X is parsed as a
\* checked task item of a task list, never as a bullet item.
C15_UpperCaseMark ==
  (rtPc = "parsed" /\ rtMd = TaskLine("X", "a")) =>
     /\ Len(rtBack) = 1
     /\ rtBack[1].type = "task_list"
     /\ rtBack[1].kids[1].checked

\* the number of fence lines of a text
FenceCount(md) ==
  Cardinality({i \in 1..Len(Split(md, NL)) : IsFence(Split(md, NL)[i])})

\* C16 (as stated): a fenced block with info string L that a later fence
\* closes becomes one code_block whose language is L (null when L is empty)
\* and whose text is the enclosed lines joined by newlines; serializing the
\* node gives the opening fence with L, the body and the closing fence.
C16_FencedBlock ==
  (rtDoc[1].type = "code_block" /\ FenceCount(rtMd) = 2) =>
     /\ rtPc \in {"parsed", "reserialized"} => rtBack = rtDoc
     /\ rtPc = "reserialized" =>
          rtMd2 = Fence \o rtDoc[1].lang \o <<NL>> \o PlainText(rtDoc[1].inl)
                    \o <<NL>> \o Fence \o <<NL>>

\* the characters of the text of a sequence of nodes
RECURSIVE NodeChars(_)
NodeChars(nodes) ==
  IF nodes = <<>> THEN {}
  ELSE LET n == Head(nodes)
           text == PlainText(n.inl)
       IN {text[i] : i \in 1..Len(text)} \cup NodeChars(n.kids) \cup NodeChars(Tail(nodes))

\* C17 (as stated): when a fence is opened and never closed, the lines after
\* the opening fence are present in the parsed tree, as the text of a code
\* block or as paragraphs.
C17_UnterminatedFence ==
  (rtPc = "parsed" /\ rtDoc[1].type = "code_block" /\ FenceCount(rtMd) = 1) =>
     (NodeChars(rtDoc) \ (WS \cup {NL})) \subseteq NodeChars(rtBack)

\* a character of the Processing... placeholder is in the text
HasPlaceholderChar(text) == \E i \in 1..Len(text) : text[i] \in ProcessingChars

\* C19 (as stated): once the failure handler of a rich-HTML paste has run,
\* the document holds no part of the Processing... placeholder and the error
\* notification has been raised.
C19_FailureRollsBack ==
  /\ (cmPc = "failed" /\ cmKind = "html") => ~HasPlaceholderChar(cmDoc) /\ cmToast
  /\ pmPc = "failed" => (\A i \in 1..Len(pmDoc) : ~HasPlaceholderChar(pmDoc[i])) /\ pmToast

\* C20 (as stated): when the user has edited the document between the paste
\* and the result, the completion transaction replaces exactly the placeholder
\* with the result and changes nothing else.
C20_ExactReplacement ==
  [][\A result \in PasteResults :
       /\ (cmEdits > 0 /\ CmResolve(result)) =>
             cmDoc' = Splice(cmDoc, cmAt, cmAt + Len(CmPlaceholder(cmKind)), result)
       /\ (pmEdits > 0 /\ PmResolve(result)) =>
             pmDoc' = SubSeq(pmDoc, 1, pmAt - 1) \o BlockTexts(ParseDoc(result))
                        \o Drop(pmDoc, pmAt)]_vars

\* C24 (as stated): consecutive list lines of one kind make a single list,
\* and a change of kind between bullet, ordered and task closes the previous
\* list before the next is opened, in every order of the kinds.
C24_ListsAccumulate ==
  (rtPc = "parsed" /\ rtMd \in {c.text : c \in ListCases}) => rtBack = rtDoc

\* the list tags of a tag stream nest: an item lies in a list of its kind and
\* every list is closed by its own closing tag
RECURSIVE ListBalanced(_, _)
ListBalanced(toks, stack) ==
  IF toks = <<>> THEN stack = <<>>
  ELSE LET t == Head(toks).t
           top == IF stack = <<>> THEN "" ELSE stack[Len(stack)]
       IN CASE t \in {"<ul>", "<ol>", "<ul.task>"} -> ListBalanced(Tail(toks), Append(stack, t))
            [] t = "<li>" -> top \in {"<ul>", "<ol>"} /\ ListBalanced(Tail(toks), stack)
            [] t = "<li.task>" -> top = "<ul.task>" /\ ListBalanced(Tail(toks), stack)
            [] t = "</ul>" -> top \in {"<ul>", "<ul.task>"}
                              /\ ListBalanced(Tail(toks), SubSeq(stack, 1, Len(stack) - 1))
            [] t = "</ol>" -> top = "<ol>"
                              /\ ListBalanced(Tail(toks), SubSeq(stack, 1, Len(stack) - 1))
            [] OTHER -> ListBalanced(Tail(toks), stack)

\* C28 (as stated): the tag stream the parser emits for any run of list
\* lines is balanced.
C28_TagsBalanced ==
  (rtPc = "parsed" /\ rtMd \in {c.text : c \in ListCases}) =>
     ListBalanced(markdownToHTML(rtMd), <<>>)

\* C26 (as stated): in the serializer's output every two adjacent top-level
\* blocks are separated by a blank line, and the output never holds two
\* consecutive blank lines.
C26_BlankLineSeparation ==
  rtPc = "serialized" =>
     /\ \A i \in 1..(Len(rtDoc) - 1) :
           (BlockText(rtDoc[i], rtDom[i]) # <<>> /\ BlockText(rtDoc[i + 1], rtDom[i + 1]) # <<>>)
              => EndsWith(BlockText(rtDoc[i], rtDom[i]), <<NL, NL>>)
     /\ \A j \in 1..(Len(rtMd) - 2) : ~(rtMd[j] = NL /\ rtMd[j + 1] = NL /\ rtMd[j + 2] = NL)

\* C25: when the effect applies an external value, the whole document is the
\* tree parsed from that value and the baseline is that value.
C25_WholesaleReplace ==
  [][replCount' = replCount + 1 =>
       /\ doc' = ParseDoc(content')
       /\ lastMarkdownRef' = content']_vars

\* the effect has replaced the paragraph of a mounted editor by the heading
\* of a new external value
C25_Witness ==
  /\ ev = "effect"
  /\ replCount = 1
  /\ content = <<"#", " ", "a", NL>>
  /\ doc = <<Heading(1, <<Txt(<<"a">>, {})>>)>>
  /\ lastMarkdownRef = content

\* C27: every armed debounce timer is the one updateTimeoutRef names, so at
\* most one is pending and a timer that a later transaction cancelled never
\* runs.
C27_OneTimerPending ==
  /\ timers \subseteq {updateTimeoutRef}
  /\ Cardinality(timers) <= 1

\* a second transaction arrived while the timer of the first was pending
C27_Witness ==
  /\ burstN >= 2
  /\ updateTimeoutRef \in timers
  /\ ~burstClosed

C21_UploadFailure ==
  /\ [](upCalls <= 1)
  /\ [](upPc = "failed" => /\ upEdits = 0 => upDoc = upBefore
                           /\ ~upProvider => upCalls = 0)
  /\ [][upPc' = "failed" /\ (upPc # "failed" \/ upErrors' # upErrors)
          => upDoc' = upDoc /\ upErrors' = upErrors + 1]_vars

\* an upload that was called failed, after the user had typed
C21_Witness ==
  /\ upPc = "failed"
  /\ upProvider
  /\ upCalls = 1
  /\ upErrors = 1
  /\ upDoc # upBefore

\* the task lists of a document that hold exactly one unchecked empty item
NewLists(d) == {i \in 1..Len(d) : d[i] = NewTaskList}

\* C22: with the text cursor in the paragraph of a task item Mod-Shift-C
\* flips the checked attribute of that item and changes nothing else; with
\* the selection outside a task item the document gains a task list with one
\* unchecked item and keeps its other blocks.
C22_ToggleTask ==
  [][kmKeys' = kmKeys + 1 =>
       IF kmSel.item > 0
       THEN kmSel.kind = "text" => kmDoc' = SetChecked(kmDoc, kmSel)
       ELSE /\ Cardinality(NewLists(kmDoc')) = Cardinality(NewLists(kmDoc)) + 1
            /\ \A i \in 1..Len(kmDoc) : i # kmSel.blk =>
                 \E j \in 1..Len(kmDoc') : kmDoc'[j] = kmDoc[i]]_vars

\* the fenced block the serializer emits for the original text of block i
SourceFence(i) ==
  Fence \o Mermaid \o <<NL>> \o PlainText(mmOrig[i].inl) \o <<NL>> \o Fence \o <<NL>>

\* C23: a block whose rendering failed keeps its text and is not marked as
\* rendered, and the serializer emits its source; as long as no diagram was
\* rendered a serialization gives what it gave before any rendering.
C23_RenderFailure ==
  /\ \A i \in mmFailed :
       /\ mmDoc[i] = mmOrig[i]
       /\ ~mmDom[i].rendered
       /\ BlockText(mmDoc[i], mmDom[i]) = SourceFence(i)
  /\ (mmOut # <<>> /\ \A i \in 1..Len(mmDom) : ~mmDom[i].rendered)
       => mmOut[1] = prosemirrorToMarkdown(ViewOf(mmOrig))

\* a rendering failed and the document was serialized afterwards
C23_Witness ==
  /\ mmFailed # {}
  /\ mmPc = "idle"
  /\ mmOut # <<>>
  /\ \E i \in mmFailed : mmDom[i].dataCode = <<"a", NL, "b">>
  /\ \A i \in 1..Len(mmDom) : ~mmDom[i].rendered

\* C29: no value passed to onChange holds text of the placeholder of a
\* rich-HTML paste.  onChange stores its argument in content, and no other
\* text of the model has a character of the placeholder.
C29_PlaceholderNotEmitted == ~HasPlaceholderChar(content)

====
